---- MODULE Spec2Model ----
(***************************************************************************)
(* Atrius core: the shared file record and its invariant checker           *)
(* (model.rs), the in-memory metadata store (local_store.rs), the lock and *)
(* conflict engine (lock.rs), version history / retention (versioning.rs), *)
(* the chunk transfer tracker (file_transfer.rs) and the watch worker of   *)
(* the file monitor (file_monitor.rs).                                     *)
(*                                                                         *)
(* Fields that no modelled operation reads or writes are left out of the   *)
(* records: FileRecord.origin_device_id / created_at / encryption,         *)
(* VersionRecord.file_id / parent_version_id / origin_device_id /          *)
(* content_hash / size_bytes / chunks, LockRecord.lock_id / owner_user_id /*)
(* mode / auto_lock / expires_at, DeviceFileState.known_head_version_id /  *)
(* last_seen_at / last_error.                                              *)
(*                                                                         *)
(* Option<T> is a sequence of length 0 (None) or 1 (Some).                 *)
(***************************************************************************)
EXTENDS Integers, Sequences, FiniteSets, TLC

VARIABLES
    files,      \* LocalMetadataStore.files    : FileId -> Option<FileRecord>
    registry,   \* LocalMetadataStore.registry : FileId -> Option<LocalRegistryEntry>
    work,       \* a FileRecord owned by the caller (the &FileRecord / &mut FileRecord
                \* handed to lock.rs and versioning.rs): Option<FileRecord>
    transfer_plan,      \* a TransferPlan: the chunks of one transfer, in order
    transfer_progress,  \* the TransferProgress of that transfer
    watchers,   \* FileMonitor._watchers: one watcher per path, each with a Sender
    channel,    \* the mpsc channel of watch: the results sent and not yet received
    sink,       \* the events FileEventSink::handle has been called with, in order
    worker,     \* FileMonitor._worker: the position of the worker thread
    held_locks, \* the LockRecords that devices were handed as Acquired and have
                \* not released since
    in_flight,  \* the results of acquire_lock / release_lock that their callers
                \* have still to write to the store
    serialized, \* whether the callers have so far kept to one step per file at a
                \* time (the discipline the store leaves to them)
    call,       \* the last call: its name and the arguments the properties read
    ret         \* what the last call returned

vars == <<files, registry, work, transfer_plan, transfer_progress,
          watchers, channel, sink, worker, held_locks, in_flight, serialized,
          call, ret>>

monitor_vars == <<watchers, channel, sink, worker>>

device_vars == <<held_locks, in_flight, serialized>>

-----------------------------------------------------------------------------
(* Bounds *)

MaxVersions == 3        \* longest versions list the versioning operations are driven to
MaxStoreVersions == 2   \* longest versions list the store operations are driven to
MaxPaths == 2           \* longest paths list of a registry entry
MaxKeep == 2            \* VersionRetention.max_versions ranges over 0..MaxKeep
MaxDeviceStates == 2    \* longest device_states list handed to assert_file_invariants
MaxChunks == 3          \* longest chunk list of a transfer plan
MaxAttempts == 3        \* attempt and RetryPolicy.max_attempts range over 0..MaxAttempts
MaxWatchers == 2        \* longest list of paths handed to FileMonitor::watch
MaxEvents == 3          \* results the watchers of one monitor send in all

FileIds == {"f1", "f2"}
DeviceIds == {"dA", "dB"}
VersionIds == {"v1", "v2", "v3"}
Times == {1, 2, 3}      \* timestamps and clock readings, in seconds

None == << >>
Some(x) == << x >>

Ok == [kind |-> "Ok"]
Err(kind, id) == [kind |-> kind, id |-> id]

ModelErrors == {"MissingHead", "DuplicateVersion", "MissingDevice"}

-----------------------------------------------------------------------------
(* model.rs *)

DeviceFileStateKind == {"Ready", "LockBlocked"}

VersionRecord(version_id, timestamp) ==
    [version_id |-> version_id, timestamp |-> timestamp]

LockRecord(file_id, owner_device_id, acquired_at) ==
    [file_id |-> file_id, owner_device_id |-> owner_device_id,
     acquired_at |-> acquired_at]

DeviceFileState(device_id, state) ==
    [device_id |-> device_id, state |-> state]

FileRecord(file_id, head_version_id, versions, lock, device_states) ==
    [file_id |-> file_id, head_version_id |-> head_version_id,
     versions |-> versions, lock |-> lock, device_states |-> device_states]

\* HashSet::insert returning false: the first position whose id was already
\* seen at an earlier position; 0 when every id is new.
FirstRepeat(ids) ==
    LET rep == {i \in 1..Len(ids) : \E j \in 1..(i - 1) : ids[j] = ids[i]}
    IN  IF rep = {} THEN 0 ELSE CHOOSE i \in rep : \A k \in rep : i <= k

\* the device states are not looked at
assert_file_invariants_versions_only(record) ==
    LET vids == [i \in 1..Len(record.versions) |-> record.versions[i].version_id]
        dv == FirstRepeat(vids)
    IN  IF dv # 0 THEN Err("DuplicateVersion", vids[dv])
        ELSE IF ~ \E i \in 1..Len(vids) : vids[i] = record.head_version_id
            THEN Err("MissingHead", record.head_version_id)
        ELSE Ok

assert_file_invariants(record) ==
    LET vids == [i \in 1..Len(record.versions) |-> record.versions[i].version_id]
        dids == [i \in 1..Len(record.device_states) |->
                    record.device_states[i].device_id]
        dv == FirstRepeat(vids)
        dd == FirstRepeat(dids)
    IN  IF dv # 0 THEN Err("DuplicateVersion", vids[dv])
        ELSE IF ~ \E i \in 1..Len(vids) : vids[i] = record.head_version_id
            THEN Err("MissingHead", record.head_version_id)
        ELSE IF dd # 0 THEN Err("MissingDevice", dids[dd])
        ELSE Ok

-----------------------------------------------------------------------------
(* local_store.rs *)

\* LocalMetadataStore::new
EmptyStore == [f \in FileIds |-> None]

\* the record is inserted first and checked afterwards
upsert_file_record_insert_first(record) ==
    /\ call' = [op |-> "upsert_file_record", file_id |-> record.file_id]
    /\ ret' = assert_file_invariants(record)
    /\ files' = [files EXCEPT ![record.file_id] = Some(record)]
    /\ UNCHANGED <<registry, work, transfer_plan, transfer_progress, monitor_vars, device_vars>>

upsert_file_record(record) ==
    LET v == assert_file_invariants(record)
    IN  /\ call' = [op |-> "upsert_file_record", file_id |-> record.file_id]
        /\ ret' = v
        /\ files' = IF v = Ok
                    THEN [files EXCEPT ![record.file_id] = Some(record)]
                    ELSE files
        /\ UNCHANGED <<registry, work, transfer_plan, transfer_progress, monitor_vars, device_vars>>

upsert_registry_entry(entry) ==
    /\ call' = [op |-> "upsert_registry_entry", file_id |-> entry.file_id]
    /\ ret' = Ok
    /\ registry' = [registry EXCEPT ![entry.file_id] = Some(entry)]
    /\ UNCHANGED <<files, work, transfer_plan, transfer_progress, monitor_vars, device_vars>>

\* the new state is pushed without looking for the device
put_device_state_pushing(device_states, device_state) ==
    Append(device_states, device_state)

\* record.device_states after the find / replace / push
put_device_state(device_states, device_state) ==
    LET hit == {i \in 1..Len(device_states) :
                    device_states[i].device_id = device_state.device_id}
    IN  IF hit # {}
        THEN [device_states EXCEPT
                ![CHOOSE i \in hit : \A k \in hit : i <= k] = device_state]
        ELSE Append(device_states, device_state)

upsert_device_state(file_id, device_state) ==
    /\ call' = [op |-> "upsert_device_state", file_id |-> file_id,
                device_state |-> device_state]
    /\ IF files[file_id] = None
       THEN /\ ret' = Err("NotFound", file_id)
            /\ UNCHANGED files
       ELSE LET record == files[file_id][1]
                record2 == [record EXCEPT !.device_states =
                                put_device_state(record.device_states, device_state)]
            IN  \* the record is changed in place, then checked
                /\ files' = [files EXCEPT ![file_id] = Some(record2)]
                /\ ret' = assert_file_invariants(record2)
    /\ UNCHANGED <<registry, work, transfer_plan, transfer_progress, monitor_vars, device_vars>>

\* the version is pushed but the head is left where it was
push_version_keeping_head(record, version_id, version_record) ==
    [record EXCEPT !.versions = Append(record.versions, version_record)]

\* the record after lines 163-164: head set, version pushed
push_version(record, version_id, version_record) ==
    [record EXCEPT !.head_version_id = version_id,
                   !.versions = Append(record.versions, version_record)]

append_version(file_id, version_id, version_record) ==
    /\ call' = [op |-> "append_version", file_id |-> file_id,
                version_id |-> version_id]
    /\ IF files[file_id] = None
       THEN /\ ret' = Err("NotFound", file_id)
            /\ UNCHANGED <<files, registry>>
       ELSE LET record2 == push_version(files[file_id][1], version_id, version_record)
                v == assert_file_invariants(record2)
            IN  \* the record is changed in place, then checked
                /\ files' = [files EXCEPT ![file_id] = Some(record2)]
                /\ ret' = v
                /\ registry' = IF v = Ok /\ registry[file_id] # None
                               THEN [registry EXCEPT ![file_id] =
                                        Some([registry[file_id][1] EXCEPT
                                            !.local_version_id = Some(version_id)])]
                               ELSE registry
    /\ UNCHANGED <<work, transfer_plan, transfer_progress, monitor_vars, device_vars>>

set_lock(file_id, lock) ==
    /\ call' = [op |-> "set_lock", file_id |-> file_id]
    /\ IF files[file_id] = None
       THEN /\ ret' = Err("NotFound", file_id)
            /\ UNCHANGED files
       ELSE LET record2 == [files[file_id][1] EXCEPT !.lock = lock]
            IN  /\ files' = [files EXCEPT ![file_id] = Some(record2)]
                /\ ret' = assert_file_invariants(record2)
    /\ UNCHANGED <<registry, work, transfer_plan, transfer_progress, monitor_vars, device_vars>>

Paths == {"/tmp/a", "/tmp/A", "/tmp/b"}

\* str::eq_ignore_ascii_case compares the ASCII-lowercased strings
to_ascii_lowercase(path) == IF path = "/tmp/A" THEN "/tmp/a" ELSE path

eq_ignore_ascii_case(p, q) == to_ascii_lowercase(p) = to_ascii_lowercase(q)

PathBinding(path, last_seen_at, writable) ==
    [path |-> path, last_seen_at |-> last_seen_at, writable |-> writable]

LocalRegistryEntry(file_id, paths, local_version_id, hydration, consent, auto_lock_preference, last_error) ==
    [file_id |-> file_id, paths |-> paths, local_version_id |-> local_version_id,
     hydration |-> hydration, consent |-> consent, pin |-> "None",
     auto_lock_preference |-> auto_lock_preference, last_error |-> last_error]

\* the other entries are searched for the very same string
path_conflicts_exact(file_id, path) ==
    {other_id \in FileIds :
        /\ other_id # file_id
        /\ registry[other_id] # None
        /\ \E i \in 1..Len(registry[other_id][1].paths) :
                registry[other_id][1].paths[i].path = path}

\* the registry keys other than file_id whose entry binds the path, ignoring case
path_conflicts(file_id, path) ==
    {other_id \in FileIds :
        /\ other_id # file_id
        /\ registry[other_id] # None
        /\ \E i \in 1..Len(registry[other_id][1].paths) :
                eq_ignore_ascii_case(registry[other_id][1].paths[i].path, path)}

\* entry.paths after the find / update / push; the own entry is searched with ==
put_path(paths, path, writable, now) ==
    LET hit == {i \in 1..Len(paths) : paths[i].path = path}
    IN  IF hit # {}
        THEN [paths EXCEPT ![CHOOSE i \in hit : \A k \in hit : i <= k] =
                                PathBinding(path, now, writable)]
        ELSE Append(paths, PathBinding(path, now, writable))

\* now: the reading of Utc::now()
bind_path(file_id, path, writable, now) ==
    /\ call' = [op |-> "bind_path", file_id |-> file_id, path |-> path]
    /\ IF path_conflicts(file_id, path) # {}
       THEN \* find_map over a HashMap: any of the conflicting keys
            /\ \E conflict_id \in path_conflicts(file_id, path) :
                    ret' = Err("PathAlreadyBound", conflict_id)
            /\ UNCHANGED registry
       ELSE IF registry[file_id] = None
       THEN /\ ret' = Err("NotFound", file_id)
            /\ UNCHANGED registry
       ELSE /\ ret' = Ok
            /\ registry' = [registry EXCEPT ![file_id] =
                    Some([registry[file_id][1] EXCEPT
                        !.paths = put_path(registry[file_id][1].paths,
                                           path, writable, now)])]
    /\ UNCHANGED <<files, work, transfer_plan, transfer_progress, monitor_vars, device_vars>>

\* Vec::retain: the elements that are in keep, in their order
retain(seq, keep) ==
    LET F[i \in 0..Len(seq)] ==
            IF i = 0 THEN << >>
            ELSE IF seq[i] \in keep THEN Append(F[i - 1], seq[i]) ELSE F[i - 1]
    IN  F[Len(seq)]

\* the elements of a sequence
Elements(seq) == {seq[i] : i \in 1..Len(seq)}

\* a file id without a registry entry is treated like an absent binding
unbind_path_lenient(file_id, path) ==
    /\ call' = [op |-> "unbind_path", file_id |-> file_id, path |-> path]
    /\ IF registry[file_id] = None
       THEN /\ ret' = Ok
            /\ UNCHANGED registry
       ELSE LET keep == {p \in Elements(registry[file_id][1].paths) : p.path # path}
            IN  /\ ret' = Ok
                /\ registry' = [registry EXCEPT ![file_id] =
                        Some([registry[file_id][1] EXCEPT
                            !.paths = retain(registry[file_id][1].paths, keep)])]
    /\ UNCHANGED <<files, work, transfer_plan, transfer_progress, monitor_vars, device_vars>>

unbind_path(file_id, path) ==
    /\ call' = [op |-> "unbind_path", file_id |-> file_id, path |-> path]
    /\ IF registry[file_id] = None
       THEN /\ ret' = Err("NotFound", file_id)
            /\ UNCHANGED registry
       ELSE LET keep == {p \in Elements(registry[file_id][1].paths) : p.path # path}
            IN  /\ ret' = Ok
                /\ registry' = [registry EXCEPT ![file_id] =
                        Some([registry[file_id][1] EXCEPT
                            !.paths = retain(registry[file_id][1].paths, keep)])]
    /\ UNCHANGED <<files, work, transfer_plan, transfer_progress, monitor_vars, device_vars>>

Hydration == {"FullyPresent", "Partial", "None"}
Consent == {"Approved", "Revoked"}
AutoLockPreference == {"OnEdit", "Manual"}
PinPreference == {"None", "KeepLatest"}

\* an absent hydration puts the entry back to FullyPresent
set_local_preferences_resetting(file_id, hydration, consent, auto_lock) ==
    /\ call' = [op |-> "set_local_preferences", file_id |-> file_id,
                hydration |-> hydration, consent |-> consent,
                auto_lock |-> auto_lock]
    /\ IF registry[file_id] = None
       THEN /\ ret' = Err("NotFound", file_id)
            /\ UNCHANGED registry
       ELSE LET entry == registry[file_id][1]
                entry1 == IF hydration # None
                          THEN [entry EXCEPT !.hydration = hydration[1]]
                          ELSE [entry EXCEPT !.hydration = "FullyPresent"]
                entry2 == IF consent # None
                          THEN [entry1 EXCEPT !.consent = consent[1]]
                          ELSE entry1
                entry3 == IF auto_lock # None
                          THEN [entry2 EXCEPT !.auto_lock_preference = auto_lock[1]]
                          ELSE entry2
            IN  /\ ret' = Ok
                /\ registry' = [registry EXCEPT ![file_id] = Some(entry3)]
    /\ UNCHANGED <<files, work, transfer_plan, transfer_progress, monitor_vars, device_vars>>

\* hydration, consent, auto_lock: Option of the new value
set_local_preferences(file_id, hydration, consent, auto_lock) ==
    /\ call' = [op |-> "set_local_preferences", file_id |-> file_id,
                hydration |-> hydration, consent |-> consent,
                auto_lock |-> auto_lock]
    /\ IF registry[file_id] = None
       THEN /\ ret' = Err("NotFound", file_id)
            /\ UNCHANGED registry
       ELSE LET entry == registry[file_id][1]
                entry1 == IF hydration # None
                          THEN [entry EXCEPT !.hydration = hydration[1]]
                          ELSE entry
                entry2 == IF consent # None
                          THEN [entry1 EXCEPT !.consent = consent[1]]
                          ELSE entry1
                entry3 == IF auto_lock # None
                          THEN [entry2 EXCEPT !.auto_lock_preference = auto_lock[1]]
                          ELSE entry2
            IN  /\ ret' = Ok
                /\ registry' = [registry EXCEPT ![file_id] = Some(entry3)]
    /\ UNCHANGED <<files, work, transfer_plan, transfer_progress, monitor_vars, device_vars>>

\* the error is also taken as the end of the file's lock
set_local_error_clearing_lock(file_id, message) ==
    /\ call' = [op |-> "set_local_error", file_id |-> file_id,
                message |-> message]
    /\ IF registry[file_id] = None
       THEN /\ ret' = Err("NotFound", file_id)
            /\ UNCHANGED <<registry, files>>
       ELSE /\ ret' = Ok
            /\ registry' = [registry EXCEPT ![file_id] =
                    Some([registry[file_id][1] EXCEPT !.last_error = message])]
            /\ files' = IF files[file_id] = None THEN files
                        ELSE [files EXCEPT ![file_id] =
                                Some([files[file_id][1] EXCEPT !.lock = None])]
    /\ UNCHANGED <<work, transfer_plan, transfer_progress, monitor_vars, device_vars>>

\* message: Option<String>
set_local_error(file_id, message) ==
    /\ call' = [op |-> "set_local_error", file_id |-> file_id,
                message |-> message]
    /\ IF registry[file_id] = None
       THEN /\ ret' = Err("NotFound", file_id)
            /\ UNCHANGED registry
       ELSE /\ ret' = Ok
            /\ registry' = [registry EXCEPT ![file_id] =
                    Some([registry[file_id][1] EXCEPT !.last_error = message])]
    /\ UNCHANGED <<files, work, transfer_plan, transfer_progress, monitor_vars, device_vars>>

\* files(): the stored file records, in no particular order
files_values == {files[f][1] : f \in {g \in FileIds : files[g] # None}}

\* registry_entries(): the stored registry entries, in no particular order
registry_entries == {registry[f][1] : f \in {g \in FileIds : registry[g] # None}}

-----------------------------------------------------------------------------
(* lock.rs: pure functions over a FileRecord the caller holds *)

\* acquire_lock made re-entrant: the holder is handed a new lock
acquire_lock_reentrant(file, device_id, now) ==
    IF file.lock # None /\ file.lock[1].owner_device_id # device_id
    THEN IF file.lock[1].file_id # file.file_id
         THEN [kind |-> "LockMismatch"]
         ELSE [kind |-> "Denied",
               holder_device |-> file.lock[1].owner_device_id,
               acquired_at |-> file.lock[1].acquired_at]
    ELSE [kind |-> "Acquired", lock |-> LockRecord(file.file_id, device_id, now)]

\* now: the reading of Utc::now()
acquire_lock(file, device_id, now) ==
    IF file.lock # None
    THEN IF file.lock[1].file_id # file.file_id
         THEN [kind |-> "LockMismatch"]
         ELSE [kind |-> "Denied",
               holder_device |-> file.lock[1].owner_device_id,
               acquired_at |-> file.lock[1].acquired_at]
    ELSE [kind |-> "Acquired", lock |-> LockRecord(file.file_id, device_id, now)]

\* the lock is cleared for any device that asks
release_lock_by_anyone(file, device_id) ==
    IF file.lock # None
    THEN IF file.lock[1].file_id # file.file_id
         THEN [ret |-> [kind |-> "LockMismatch"], file |-> file]
         ELSE [ret |-> Ok, file |-> [file EXCEPT !.lock = None]]
    ELSE [ret |-> Ok, file |-> file]

\* the result and the record as release_lock leaves it
release_lock(file, device_id) ==
    IF file.lock # None
    THEN IF file.lock[1].file_id # file.file_id
         THEN [ret |-> [kind |-> "LockMismatch"], file |-> file]
         ELSE IF file.lock[1].owner_device_id = device_id
         THEN [ret |-> Ok, file |-> [file EXCEPT !.lock = None]]
         ELSE [ret |-> Ok, file |-> file]
    ELSE [ret |-> Ok, file |-> file]

\* check_conflict with the base-head test applied to the lock holder too
check_conflict_head_first(file, caller_device, caller_base_head) ==
    IF file.lock # None /\ file.lock[1].owner_device_id # caller_device
    THEN [kind |-> "LockedBy", id |-> file.lock[1].owner_device_id]
    ELSE IF caller_base_head = file.head_version_id
         THEN [kind |-> "Allowed"]
         ELSE [kind |-> "Conflict", current_head |-> file.head_version_id,
               base_head |-> caller_base_head]

check_conflict(file, caller_device, caller_base_head) ==
    IF file.lock # None
    THEN IF file.lock[1].owner_device_id = caller_device
         THEN [kind |-> "Allowed"]
         ELSE [kind |-> "LockedBy", id |-> file.lock[1].owner_device_id]
    ELSE IF caller_base_head = file.head_version_id
         THEN [kind |-> "Allowed"]
         ELSE [kind |-> "Conflict", current_head |-> file.head_version_id,
               base_head |-> caller_base_head]

\* an entry in state LockBlocked is added for a device that has none
mark_lock_blocked_inserting(file, device_id) ==
    LET at == {i \in 1..Len(file.device_states) :
                    file.device_states[i].device_id = device_id}
    IN  IF at = {}
        THEN [file EXCEPT !.device_states =
                Append(file.device_states, DeviceFileState(device_id, "LockBlocked"))]
        ELSE [file EXCEPT !.device_states[CHOOSE i \in at : \A k \in at : i <= k].state =
                "LockBlocked"]

\* the record as mark_lock_blocked leaves it; iter_mut().find: the first
\* entry of the device
mark_lock_blocked(file, device_id) ==
    LET at == {i \in 1..Len(file.device_states) :
                    file.device_states[i].device_id = device_id}
    IN  IF at = {}
        THEN file
        ELSE [file EXCEPT !.device_states[CHOOSE i \in at : \A k \in at : i <= k].state =
                "LockBlocked"]

-----------------------------------------------------------------------------
(* versioning.rs: functions over a FileRecord the caller holds *)

list_versions(file) == file.versions

\* rollback by truncation: history after the target is cut off before the push
rollback_truncating(file, target_version_id, new_version) ==
    LET at == {i \in 1..Len(file.versions) :
                    file.versions[i].version_id = target_version_id}
    IN  IF at = {}
        THEN [ret |-> Err("MissingVersion", target_version_id), file |-> file]
        ELSE LET last == CHOOSE i \in at : \A k \in at : k <= i
                 file2 == [file EXCEPT
                            !.versions = Append(SubSeq(file.versions, 1, last),
                                                new_version),
                            !.head_version_id = new_version.version_id]
             IN  [ret |-> assert_file_invariants(file2), file |-> file2]

\* the result and the record as rollback_to_version leaves it
rollback_to_version(file, target_version_id, new_version) ==
    IF ~ \E i \in 1..Len(file.versions) :
            file.versions[i].version_id = target_version_id
    THEN [ret |-> Err("MissingVersion", target_version_id), file |-> file]
    ELSE LET file2 == [file EXCEPT
                        !.versions = Append(file.versions, new_version),
                        !.head_version_id = new_version.version_id]
         IN  [ret |-> assert_file_invariants(file2), file |-> file2]

\* sort_by_key(|v| v.timestamp): a stable sort, ascending
sort_by_timestamp(versions) ==
    LET Insert(s, v) ==
            LET k == Cardinality({i \in 1..Len(s) : s[i].timestamp <= v.timestamp})
            IN  SubSeq(s, 1, k) \o <<v>> \o SubSeq(s, k + 1, Len(s))
        F[i \in 0..Len(versions)] ==
            IF i = 0 THEN << >> ELSE Insert(F[i - 1], versions[i])
    IN  F[Len(versions)]

\* now.checked_sub(max_age): SystemTime reaches far below the epoch, so within
\* the modelled seconds the subtraction never fails and UNIX_EPOCH is not used
age_cutoff(now, max_age) == now - max_age

\* the age filter without the exemption of the head
retain_by_age_only(file, policy, now) ==
    IF policy.max_age = None THEN file.versions
    ELSE LET cutoff == age_cutoff(now, policy.max_age[1])
             keep == {v \in Elements(file.versions) : v.timestamp >= cutoff}
         IN  retain(file.versions, keep)

\* file.versions after the age filter (lines 60-67)
retain_by_age(file, policy, now) ==
    IF policy.max_age = None THEN file.versions
    ELSE LET cutoff == age_cutoff(now, policy.max_age[1])
             keep == {v \in Elements(file.versions) :
                        v.version_id = file.head_version_id \/ v.timestamp >= cutoff}
         IN  retain(file.versions, keep)

\* a count phase that drops only the oldest version besides the head, one
\* per call
apply_retention_dropping_oldest(file, policy, now) ==
    LET head_id == file.head_version_id
        aged == retain_by_age(file, policy, now)
    IN  IF Len(aged) > policy.max_versions
        THEN LET sorted == sort_by_timestamp(aged)
                 others == {i \in 1..Len(sorted) : sorted[i].version_id # head_id}
                 oldest == IF others = {} THEN 0
                           ELSE CHOOSE i \in others : \A k \in others : i <= k
                 file2 == [file EXCEPT !.versions =
                            [i \in 1..(Len(sorted) - (IF oldest = 0 THEN 0 ELSE 1)) |->
                                IF oldest = 0 \/ i < oldest
                                THEN sorted[i] ELSE sorted[i + 1]]]
             IN  [ret |-> assert_file_invariants(file2), file |-> file2]
        ELSE LET file2 == [file EXCEPT !.versions = aged]
             IN  [ret |-> assert_file_invariants(file2), file |-> file2]

\* the result and the record as apply_retention leaves it; indexing
\* file.versions[keep_from] past the end panics, after the sort
apply_retention(file, policy, now) ==
    LET head_id == file.head_version_id
        aged == retain_by_age(file, policy, now)
    IN  IF Len(aged) > policy.max_versions
        THEN LET sorted == sort_by_timestamp(aged)
                 keep_from == Len(sorted) - policy.max_versions
             IN  IF keep_from + 1 > Len(sorted)
                 THEN [ret |-> [kind |-> "panic"],
                       file |-> [file EXCEPT !.versions = sorted]]
                 ELSE LET cutoff_ts == sorted[keep_from + 1].timestamp
                          keep == {v \in Elements(sorted) :
                                    v.version_id = head_id \/ v.timestamp >= cutoff_ts}
                          file2 == [file EXCEPT !.versions = retain(sorted, keep)]
                      IN  [ret |-> assert_file_invariants(file2), file |-> file2]
        ELSE LET file2 == [file EXCEPT !.versions = aged]
             IN  [ret |-> assert_file_invariants(file2), file |-> file2]

-----------------------------------------------------------------------------
(* file_transfer.rs: the chunk plan of one transfer and its progress.       *)
(* TransferPlan.file_id / version_id / direction, ChunkRef.hash and         *)
(* TransferProgress.session_id / started_at are read by no modelled         *)
(* operation and are left out.                                              *)

ChunkRef(offset, length) == [offset |-> offset, length |-> length]

TransferPlan(chunks) == [chunks |-> chunks]

TransferProgress(completed_chunks, failed_chunks) ==
    [completed_chunks |-> completed_chunks, failed_chunks |-> failed_chunks]

\* TransferProgress::new
new_progress == TransferProgress({}, {})

\* a second mark_done of an offset counts it as failed again
mark_done_toggling(self, offset) ==
    TransferProgress(self.completed_chunks \cup {offset},
                     IF offset \in self.completed_chunks
                     THEN self.failed_chunks \cup {offset}
                     ELSE self.failed_chunks \ {offset})

mark_done(self, offset) ==
    TransferProgress(self.completed_chunks \cup {offset},
                     self.failed_chunks \ {offset})

\* the failure is recorded whether or not the offset is completed
mark_failed_always(self, offset) ==
    TransferProgress(self.completed_chunks, self.failed_chunks \cup {offset})

mark_failed(self, offset) ==
    IF offset \notin self.completed_chunks
    THEN TransferProgress(self.completed_chunks, self.failed_chunks \cup {offset})
    ELSE self

\* complete as soon as as many offsets are completed as the plan has chunks
is_complete_counting(self, plan) ==
    Cardinality(self.completed_chunks) >= Len(plan.chunks)

is_complete(self, plan) ==
    \A i \in 1..Len(plan.chunks) :
        plan.chunks[i].offset \in self.completed_chunks

\* skips the chunks recorded as failed as well
next_chunk_skipping_failed(plan, progress) ==
    LET open == {i \in 1..Len(plan.chunks) :
                    /\ plan.chunks[i].offset \notin progress.completed_chunks
                    /\ plan.chunks[i].offset \notin progress.failed_chunks}
    IN  IF open = {} THEN None
        ELSE Some(plan.chunks[CHOOSE i \in open : \A k \in open : i <= k])

\* Iterator::find: the first chunk, in plan order, that is not completed
next_chunk(plan, progress) ==
    LET open == {i \in 1..Len(plan.chunks) :
                    plan.chunks[i].offset \notin progress.completed_chunks}
    IN  IF open = {} THEN None
        ELSE Some(plan.chunks[CHOOSE i \in open : \A k \in open : i <= k])

RetryPolicy(max_attempts, backoff) ==
    [max_attempts |-> max_attempts, backoff |-> backoff]

\* one attempt more than the policy allows is let through
can_retry_inclusive(offset, attempt, policy) ==
    IF attempt > policy.max_attempts
    THEN Err("MaxRetries", offset)
    ELSE Ok

can_retry(offset, attempt, policy) ==
    IF attempt >= policy.max_attempts
    THEN Err("MaxRetries", offset)
    ELSE Ok

-----------------------------------------------------------------------------
(* file_monitor.rs: FileMonitor::watch, its watchers and its worker thread. *)
(* FileEvent.occurred_at, the reading of SystemTime::now(), is read by no   *)
(* modelled operation and is left out.                                      *)

\* notify::Event; kind names the EventKind variant, such as "Create(File)"
Event(kind, paths) == [kind |-> kind, paths |-> paths]

FileEvent(path, kind) == [path |-> path, kind |-> kind]

\* FileChangeKind; Renamed carries from and to
FileChangeKind(tag) == [tag |-> tag]

\* the match on event.kind (lines 131-157)
normalized_kind(event) ==
    IF event.kind \in {"Create(File)", "Create(Any)", "Create(Other)"}
    THEN FileChangeKind("Created")
    ELSE IF event.kind \in {"Modify(Data)", "Modify(Any)", "Modify(Other)",
                            "Modify(Name(Both))"}
    THEN FileChangeKind("Modified")
    ELSE IF event.kind = "Modify(Metadata(Any))"
    THEN FileChangeKind("Metadata")
    ELSE IF event.kind \in {"Remove(File)", "Remove(Any)", "Remove(Other)"}
    THEN FileChangeKind("Removed")
    ELSE IF event.kind = "Modify(Name(To))"
    THEN IF Len(event.paths) = 2
         THEN [tag |-> "Renamed", from |-> event.paths[1], to |-> event.paths[2]]
         ELSE FileChangeKind("Other")
    ELSE FileChangeKind("Other")

\* event.paths.get(0).cloned().unwrap_or_else(PathBuf::new); "" is the
\* empty PathBuf
primary_path(event) ==
    IF Len(event.paths) > 0 THEN event.paths[1] ELSE ""

\* a rename without its two paths is dropped instead of degraded to Other
normalize_event_dropping(event) ==
    IF event.kind = "Modify(Name(To))" /\ Len(event.paths) # 2
    THEN None
    ELSE Some(FileEvent(primary_path(event), normalized_kind(event)))

normalize_event(event) ==
    Some(FileEvent(primary_path(event), normalized_kind(event)))

\* no FileMonitor yet: watch has not been called
NoMonitor ==
    /\ watchers = << >>
    /\ channel = << >>
    /\ sink = << >>
    /\ worker = "none"

-----------------------------------------------------------------------------
Init ==
    /\ files = EmptyStore
    /\ registry = EmptyStore
    /\ work = None
    /\ transfer_plan = TransferPlan(<< >>)
    /\ transfer_progress = new_progress
    /\ NoMonitor
    /\ held_locks = {}
    /\ in_flight = {}
    /\ serialized = TRUE
    /\ call = [op |-> "new"]
    /\ ret = Ok

-----------------------------------------------------------------------------
(* The shared half of the store: file records under upsert_file_record,     *)
(* upsert_device_state, append_version and set_lock.                        *)

\* all sequences over S of length 0..n
SeqsUpTo(S, n) == UNION {[1..k -> S] : k \in 0..n}

StoreVersionIds == {"v1", "v2"}
\* f1 is driven through every operation; f2 is the bystander record, created
\* and locked but with no history or device-state traffic of its own
DrivenFileIds == {"f1"}
StoreVersionInputs == {VersionRecord(v, 1) : v \in StoreVersionIds}
\* the lock names f1: a matching lock when set on f1, a foreign one on f2
StoreLockInputs == {None, Some(LockRecord("f1", "dA", 1))}
StoreDeviceStateInputs ==
    {DeviceFileState(d, k) : d \in DeviceIds, k \in DeviceFileStateKind}

\* records handed to upsert_file_record, valid and invalid
FileRecordInputs ==
    {FileRecord("f1", h, vs, x[1], x[2]) :
        h \in StoreVersionIds,
        vs \in SeqsUpTo(StoreVersionInputs, MaxStoreVersions),
        x \in {<<None, << >> >>,
               <<Some(LockRecord("f1", "dA", 1)),
                 <<DeviceFileState("dA", "Ready"), DeviceFileState("dB", "Ready")>> >>,
               <<None,
                 <<DeviceFileState("dA", "Ready"),
                   DeviceFileState("dA", "LockBlocked")>> >>}}
    \cup {FileRecord("f2", "v1", <<VersionRecord("v1", 1)>>, None, << >>)}

RegistryEntryInputs ==
    {LocalRegistryEntry(f, << >>, None, "FullyPresent", "Approved", "OnEdit", None) :
        f \in FileIds}

FilesUpsertFileRecord ==
    \E record \in FileRecordInputs : upsert_file_record(record)

FilesUpsertRegistryEntry ==
    \E entry \in RegistryEntryInputs : upsert_registry_entry(entry)

FilesUpsertDeviceState ==
    \E file_id \in DrivenFileIds, device_state \in StoreDeviceStateInputs :
        upsert_device_state(file_id, device_state)

FilesAppendVersion ==
    \E file_id \in DrivenFileIds, version_id \in StoreVersionIds,
       version_record \in StoreVersionInputs :
        /\ files[file_id] # None => Len(files[file_id][1].versions) < MaxStoreVersions
        /\ append_version(file_id, version_id, version_record)

FilesSetLock ==
    \E file_id \in FileIds, lock \in StoreLockInputs : set_lock(file_id, lock)

NextFiles ==
    \/ FilesUpsertFileRecord
    \/ FilesUpsertRegistryEntry
    \/ FilesUpsertDeviceState
    \/ FilesAppendVersion
    \/ FilesSetLock

SpecFiles == Init /\ [][NextFiles]_vars

\* the three listed invariants of a file record, stated on the record itself
HeadPresent(record) ==
    \E i \in 1..Len(record.versions) :
        record.versions[i].version_id = record.head_version_id

NoDuplicateVersions(record) ==
    \A i, j \in 1..Len(record.versions) :
        record.versions[i].version_id = record.versions[j].version_id => i = j

OneStatePerDevice(record) ==
    \A i, j \in 1..Len(record.device_states) :
        record.device_states[i].device_id = record.device_states[j].device_id
            => i = j

\* C1: after any sequence of store operations, failing ones included, every
\* readable file record has its head in versions, no duplicate version ids and
\* at most one device state per device.
C1_StoredRecordsValid ==
    \A f \in FileIds :
        files[f] # None =>
            /\ HeadPresent(files[f][1])
            /\ NoDuplicateVersions(files[f][1])
            /\ OneStatePerDevice(files[f][1])

\* C2: a call of append_version, upsert_device_state or set_lock that returns
\* a ModelError leaves file records and registry entries as they were.
C2_ModelErrorRollsBack ==
    [][(/\ call'.op \in {"append_version", "upsert_device_state", "set_lock"}
        /\ ret'.kind \in ModelErrors)
       => (files' = files /\ registry' = registry)]_vars

\* C11: a successful append_version(file_id, version_id, record) makes
\* version_id the head, lengthens versions by exactly one, sets
\* local_version_id of the file's registry entry, if there is one, to
\* version_id, and leaves the registry entry of every other file as it was.
C11_AppendVersionMonotonic ==
    [][(call'.op = "append_version" /\ ret' = Ok) =>
        LET f == call'.file_id
        IN  /\ files[f] # None /\ files'[f] # None
            /\ files'[f][1].head_version_id = call'.version_id
            /\ Len(files'[f][1].versions) = Len(files[f][1].versions) + 1
            /\ registry[f] # None =>
                    /\ registry'[f] # None
                    /\ registry'[f][1].local_version_id = Some(call'.version_id)
            /\ registry[f] = None => registry'[f] = None
            /\ \A g \in FileIds \ {f} : registry'[g] = registry[g]]_vars

\* a second version was appended to a file that has a registry entry, next to
\* the registry entry of another file
C11_Witness ==
    /\ call.op = "append_version" /\ ret = Ok
    /\ files[call.file_id] # None
    /\ Len(files[call.file_id][1].versions) = 2
    /\ files[call.file_id][1].head_version_id = call.version_id
    /\ registry[call.file_id] # None
    /\ registry[call.file_id][1].local_version_id = Some(call.version_id)
    /\ \E g \in FileIds \ {call.file_id} :
            registry[g] # None /\ registry[g][1].local_version_id = None

\* C26: upsert_device_state on a stored record puts the new state in the
\* place of the entry of the same device if there is one and at the end
\* otherwise; head, versions, lock and the entries of the other devices stay
\* as they were, and on a record that satisfies the invariants the call
\* returns Ok.
C26_DeviceStateReplacedOrAppended ==
    [][(call'.op = "upsert_device_state" /\ files[call'.file_id] # None) =>
        /\ files'[call'.file_id] # None
        /\ LET old == files[call'.file_id][1]
               new == files'[call'.file_id][1]
               device_state == call'.device_state
               olds == old.device_states
               news == new.device_states
               held == \E i \in 1..Len(olds) :
                            olds[i].device_id = device_state.device_id
           IN  /\ new.file_id = old.file_id
               /\ new.head_version_id = old.head_version_id
               /\ new.versions = old.versions
               /\ new.lock = old.lock
               /\ Len(news) = IF held THEN Len(olds) ELSE Len(olds) + 1
               /\ \A i \in 1..Len(olds) :
                    news[i] = IF olds[i].device_id = device_state.device_id
                              THEN device_state ELSE olds[i]
               /\ ~held => news[Len(news)] = device_state
               /\ assert_file_invariants(old) = Ok => ret' = Ok
        /\ \A g \in FileIds \ {call'.file_id} : files'[g] = files[g]
        /\ registry' = registry]_vars

\* the state of the first of two devices of a locked record was replaced
C26_Witness ==
    /\ call.op = "upsert_device_state"
    /\ ret = Ok
    /\ files[call.file_id] # None
    /\ files[call.file_id][1].lock # None
    /\ Len(files[call.file_id][1].device_states) = 2
    /\ files[call.file_id][1].device_states[1] = call.device_state
    /\ call.device_state = DeviceFileState("dA", "LockBlocked")
    /\ files[call.file_id][1].device_states[2].device_id = "dB"

\* C27: after a successful append_version the head is the version_id field of
\* the last element of versions, whatever version_id argument and
\* record.version_id were supplied.
C27_HeadIsPushedVersion ==
    [][(call'.op = "append_version" /\ ret' = Ok) =>
        LET new == files'[call'.file_id][1]
        IN  new.head_version_id = new.versions[Len(new.versions)].version_id]_vars

\* C16: every stored file record that has a lock has a lock whose file_id is
\* the file_id of the record.
C16_StoredLockNamesItsFile ==
    \A f \in FileIds :
        (files[f] # None /\ files[f][1].lock # None) =>
            files[f][1].lock[1].file_id = files[f][1].file_id

\* the files map of a new store after upsert_file_record of every item of
\* files(): the items that pass the validation, under their file_id
replayed_files ==
    [f \in FileIds |->
        LET accepted == {record \in files_values :
                            /\ record.file_id = f
                            /\ assert_file_invariants(record) = Ok}
        IN  IF accepted = {} THEN None ELSE Some(CHOOSE record \in accepted : TRUE)]

\* the registry map of a new store after upsert_registry_entry of every item
\* of registry_entries()
replayed_registry ==
    [f \in FileIds |->
        LET inserted == {entry \in registry_entries : entry.file_id = f}
        IN  IF inserted = {} THEN None ELSE Some(CHOOSE entry \in inserted : TRUE)]

\* C17: in every reachable store state, replaying files() through
\* upsert_file_record and registry_entries() through upsert_registry_entry
\* into a new store succeeds for every item and rebuilds the same file
\* records and registry entries.
C17_ReplayRebuildsStore ==
    /\ \A record \in files_values : assert_file_invariants(record) = Ok
    /\ replayed_files = files
    /\ replayed_registry = registry

-----------------------------------------------------------------------------
(* assert_file_invariants on any record a caller can build, valid or not.   *)

InvariantsVersionInputs == {VersionRecord(v, 1) : v \in VersionIds}

InvariantsRecordInputs ==
    {FileRecord("f1", h, vs, lock, ds) :
        h \in VersionIds,
        vs \in SeqsUpTo(InvariantsVersionInputs, MaxVersions),
        lock \in {None, Some(LockRecord("f2", "dA", 1))},
        ds \in SeqsUpTo(StoreDeviceStateInputs, MaxDeviceStates)}

InitInvariants ==
    /\ files = EmptyStore
    /\ registry = EmptyStore
    /\ work \in {Some(record) : record \in InvariantsRecordInputs}
    /\ transfer_plan = TransferPlan(<< >>)
    /\ transfer_progress = new_progress
    /\ NoMonitor
    /\ held_locks = {}
    /\ in_flight = {}
    /\ serialized = TRUE
    /\ call = [op |-> "new"]
    /\ ret = Ok

InvariantsAssert ==
    /\ call' = [op |-> "assert_file_invariants"]
    /\ ret' = assert_file_invariants(work[1])
    /\ UNCHANGED <<files, registry, work, transfer_plan, transfer_progress, monitor_vars, device_vars>>

NextInvariants == InvariantsAssert

SpecInvariants == InitInvariants /\ [][NextInvariants]_vars

\* C15: assert_file_invariants returns Ok exactly for the records whose head
\* is the id of one of the versions, whose versions have pairwise different
\* ids and whose device states have pairwise different device ids; for every
\* other record it returns MissingHead with the head, DuplicateVersion with
\* a version id that occurs twice, or MissingDevice with a device id that
\* occurs twice.
C15_InvariantsCheckedExactly ==
    call.op = "assert_file_invariants" =>
        LET record == work[1]
        IN  /\ ret = Ok <=> /\ HeadPresent(record)
                            /\ NoDuplicateVersions(record)
                            /\ OneStatePerDevice(record)
            /\ ret # Ok => ret.kind \in ModelErrors
            /\ ret.kind = "MissingHead" =>
                    /\ ret.id = record.head_version_id
                    /\ ~HeadPresent(record)
            /\ ret.kind = "DuplicateVersion" =>
                    \E i, j \in 1..Len(record.versions) :
                        /\ i # j
                        /\ record.versions[i].version_id = ret.id
                        /\ record.versions[j].version_id = ret.id
            /\ ret.kind = "MissingDevice" =>
                    \E i, j \in 1..Len(record.device_states) :
                        /\ i # j
                        /\ record.device_states[i].device_id = ret.id
                        /\ record.device_states[j].device_id = ret.id

\* a record with its head present and no repeated version, rejected for its
\* two states of one device
C15_Witness ==
    /\ call.op = "assert_file_invariants"
    /\ ret.kind = "MissingDevice"
    /\ HeadPresent(work[1])
    /\ NoDuplicateVersions(work[1])
    /\ Len(work[1].versions) = 2

-----------------------------------------------------------------------------
(* The local half of the store: registry entries under                      *)
(* upsert_registry_entry, bind_path and unbind_path.                        *)

RegistryPathInputs == {PathBinding(p, 1, FALSE) : p \in Paths}

RegistryInputs ==
    {LocalRegistryEntry(f, ps, None, "FullyPresent", "Approved", "OnEdit", None) :
        f \in FileIds, ps \in SeqsUpTo(RegistryPathInputs, MaxPaths)}

RegistryUpsertRegistryEntry ==
    \E entry \in RegistryInputs : upsert_registry_entry(entry)

RegistryBindPath ==
    \E file_id \in FileIds, path \in Paths :
        /\ registry[file_id] # None => Len(registry[file_id][1].paths) < MaxPaths
        /\ bind_path(file_id, path, TRUE, 2)

RegistryUnbindPath ==
    \E file_id \in FileIds, path \in Paths : unbind_path(file_id, path)

NextRegistry ==
    \/ RegistryUpsertRegistryEntry
    \/ RegistryBindPath
    \/ RegistryUnbindPath

SpecRegistry == Init /\ [][NextRegistry]_vars

\* the file ids whose registry entry binds the path, ignoring case
BoundTo(path) ==
    {f \in FileIds :
        /\ registry[f] # None
        /\ \E i \in 1..Len(registry[f][1].paths) :
                eq_ignore_ascii_case(registry[f][1].paths[i].path, path)}

\* C3: after any sequence of upsert_registry_entry, bind_path and unbind_path
\* no path, compared ignoring case, is bound under two different file ids.
C3_NoPathAlias ==
    \A path \in Paths : Cardinality(BoundTo(path)) <= 1

\* C12: bind_path of a path that the registry entry of another file A binds,
\* ignoring case, fails with PathAlreadyBound(A) and leaves the registry as it
\* was; bind_path of a path that no other file binds succeeds for a file B
\* that has a registry entry, and B binds the path afterwards.
C12_BindPathAliasExclusive ==
    [][call'.op = "bind_path" =>
        LET B == call'.file_id
            holders == BoundTo(call'.path) \ {B}
        IN  /\ holders # {} =>
                /\ ret'.kind = "PathAlreadyBound"
                /\ ret'.id \in holders
                /\ registry' = registry
            /\ (holders = {} /\ registry[B] # None) =>
                /\ ret' = Ok
                /\ registry'[B] # None
                /\ \E i \in 1..Len(registry'[B][1].paths) :
                        registry'[B][1].paths[i].path = call'.path
                /\ \A g \in FileIds \ {B} : registry'[g] = registry[g]]_vars

\* a file with a registry entry was refused a path that another file binds
\* in a different case only
C12_Witness ==
    /\ call.op = "bind_path"
    /\ ret.kind = "PathAlreadyBound"
    /\ ret.id # call.file_id
    /\ registry[call.file_id] # None
    /\ registry[ret.id] # None
    /\ \A i \in 1..Len(registry[ret.id][1].paths) :
            registry[ret.id][1].paths[i].path # call.path
    /\ \E i \in 1..Len(registry[ret.id][1].paths) :
            eq_ignore_ascii_case(registry[ret.id][1].paths[i].path, call.path)

\* two bindings of the list have paths that are equal ignoring case
HasCaseAlias(paths) ==
    \E i, j \in 1..Len(paths) :
        i # j /\ eq_ignore_ascii_case(paths[i].path, paths[j].path)

\* C28: a successful bind_path whose path equals, ignoring case, the path of
\* a binding the file already has changes that binding alone and adds none;
\* only a path that matches no binding of the file is appended; so an entry whose bindings were pairwise different ignoring case
\* still is after the call.
C28_BindPathUpdatesOwnBinding ==
    [][(call'.op = "bind_path" /\ ret' = Ok) =>
        LET old == registry[call'.file_id][1].paths
            new == registry'[call'.file_id][1].paths
            matching == {i \in 1..Len(old) :
                            eq_ignore_ascii_case(old[i].path, call'.path)}
        IN  /\ matching # {} =>
                /\ Len(new) = Len(old)
                /\ \E i \in matching :
                        \A j \in 1..Len(old) : j # i => new[j] = old[j]
            /\ matching = {} => Len(new) = Len(old) + 1
            /\ ~HasCaseAlias(old) => ~HasCaseAlias(new)]_vars

\* C13: bind_path addressed to a file id with no registry entry returns
\* NotFound(file_id), whatever the path, also when another file binds it.
C13_BindPathNotFound ==
    [][(call'.op = "bind_path" /\ registry[call'.file_id] = None)
       => ret' = Err("NotFound", call'.file_id)]_vars

-----------------------------------------------------------------------------
(* Both halves of the store under every mutating operation. f1 is the file  *)
(* with a shared record; registry entries exist for f1 and f2.              *)

StoreFileInputs ==
    {FileRecord(f, "v1", <<VersionRecord("v1", 1)>>, None, << >>) :
        f \in DrivenFileIds}

StoreErrorInputs == {None, Some("io error")}

StoreUpsertFileRecord ==
    \E record \in StoreFileInputs : upsert_file_record(record)

StoreUpsertRegistryEntry ==
    \E entry \in RegistryEntryInputs : upsert_registry_entry(entry)

StoreAppendVersion ==
    \E file_id \in FileIds :
        /\ files[file_id] # None => Len(files[file_id][1].versions) < MaxStoreVersions
        /\ append_version(file_id, "v2", VersionRecord("v2", 1))

StoreSetLock ==
    \E file_id \in FileIds :
        \E lock \in {None, Some(LockRecord(file_id, "dA", 1))} :
            set_lock(file_id, lock)

StoreUpsertDeviceState ==
    \E file_id \in FileIds :
        upsert_device_state(file_id, DeviceFileState("dA", "Ready"))

StoreBindPath ==
    \E file_id \in FileIds :
        /\ registry[file_id] # None => Len(registry[file_id][1].paths) < MaxPaths
        /\ bind_path(file_id, "/tmp/a", TRUE, 2)

StoreUnbindPath ==
    \E file_id \in FileIds : unbind_path(file_id, "/tmp/a")

StoreSetLocalPreferences ==
    \E file_id \in FileIds :
        set_local_preferences(file_id, Some("Partial"), None, Some("Manual"))

StoreSetLocalError ==
    \E file_id \in FileIds, message \in StoreErrorInputs :
        set_local_error(file_id, message)

NextStore ==
    \/ StoreUpsertFileRecord
    \/ StoreUpsertRegistryEntry
    \/ StoreAppendVersion
    \/ StoreSetLock
    \/ StoreUpsertDeviceState
    \/ StoreBindPath
    \/ StoreUnbindPath
    \/ StoreSetLocalPreferences
    \/ StoreSetLocalError

SpecStore == Init /\ [][NextStore]_vars

\* C14: append_version, set_lock and upsert_device_state on a file id with no
\* file record, and unbind_path, set_local_preferences and set_local_error on
\* a file id with no registry entry, return NotFound(file_id) and change
\* neither the file records nor the registry entries.
C14_AbsentIdIsNotFound ==
    [][/\ (/\ call'.op \in {"append_version", "set_lock", "upsert_device_state"}
           /\ files[call'.file_id] = None)
          => /\ ret' = Err("NotFound", call'.file_id)
             /\ files' = files /\ registry' = registry
       /\ (/\ call'.op \in {"unbind_path", "set_local_preferences",
                             "set_local_error"}
           /\ registry[call'.file_id] = None)
          => /\ ret' = Err("NotFound", call'.file_id)
             /\ files' = files /\ registry' = registry]_vars

\* unbind_path was refused for a file id that has a file record but no
\* registry entry, in a store that holds a registry entry with a path
C14_Witness ==
    /\ call.op = "unbind_path"
    /\ ret = Err("NotFound", call.file_id)
    /\ registry[call.file_id] = None
    /\ files[call.file_id] # None
    /\ \E g \in FileIds : registry[g] # None /\ Len(registry[g][1].paths) = 1

\* C25: set_local_error, set_local_preferences, bind_path, unbind_path and
\* upsert_registry_entry leave every file record as it was, whether they
\* succeed or fail; a successful set_local_error sets last_error of the
\* addressed registry entry to its argument and changes no other field and
\* no other entry.
C25_LocalOperationsLeaveSharedState ==
    [][/\ call'.op \in {"set_local_error", "set_local_preferences", "bind_path",
                        "unbind_path", "upsert_registry_entry"}
          => files' = files
       /\ (call'.op = "set_local_error" /\ ret' = Ok) =>
            /\ registry[call'.file_id] # None
            /\ registry'[call'.file_id] =
                    Some([registry[call'.file_id][1] EXCEPT
                            !.last_error = call'.message])
            /\ \A g \in FileIds \ {call'.file_id} :
                    registry'[g] = registry[g]]_vars

\* an error was set on the entry of a file whose shared record is locked and
\* has two versions, and whose entry binds a path
C25_Witness ==
    /\ call.op = "set_local_error"
    /\ ret = Ok
    /\ call.message # None
    /\ files[call.file_id] # None
    /\ files[call.file_id][1].lock # None
    /\ Len(files[call.file_id][1].versions) = 2
    /\ registry[call.file_id] # None
    /\ registry[call.file_id][1].last_error = call.message
    /\ Len(registry[call.file_id][1].paths) = 1
    /\ registry[call.file_id][1].hydration = "Partial"

-----------------------------------------------------------------------------
(* Locking: the caller reads a stored record, asks lock.rs, and stores the  *)
(* lock through set_lock or the released record through upsert_file_record. *)

LockFileInputs ==
    {FileRecord("f1", h, <<VersionRecord("v1", 1), VersionRecord("v2", 1)>>,
                None, << >>) : h \in {"v1", "v2"}}

\* any lock record a caller can hand to set_lock
LockInputs ==
    {None} \cup {Some(LockRecord(f, d, 1)) : f \in FileIds, d \in DeviceIds}

LockUpsertFileRecord ==
    \E record \in LockFileInputs : upsert_file_record(record)

LockSetLock ==
    \E file_id \in FileIds, lock \in LockInputs : set_lock(file_id, lock)

\* acquire_lock on store.file_record(&file_id)
LockAcquire ==
    \E file_id \in FileIds, device_id \in DeviceIds, now \in Times :
        /\ files[file_id] # None
        /\ call' = [op |-> "acquire_lock", file_id |-> file_id,
                    device_id |-> device_id]
        /\ ret' = acquire_lock(files[file_id][1], device_id, now)
        /\ UNCHANGED <<files, registry, work, transfer_plan, transfer_progress, monitor_vars, device_vars>>

\* the caller stores the LockRecord that acquire_lock has just returned
LockStoreAcquired ==
    /\ call.op = "acquire_lock"
    /\ ret.kind = "Acquired"
    /\ set_lock(call.file_id, Some(ret.lock))

\* check_conflict on store.file_record(&file_id)
LockCheckConflict ==
    \E file_id \in FileIds, caller_device \in DeviceIds,
       caller_base_head \in VersionIds :
        /\ files[file_id] # None
        /\ call' = [op |-> "check_conflict", file_id |-> file_id,
                    device_id |-> caller_device, base_head |-> caller_base_head]
        /\ ret' = check_conflict(files[file_id][1], caller_device, caller_base_head)
        /\ UNCHANGED <<files, registry, work, transfer_plan, transfer_progress, monitor_vars, device_vars>>

\* store.file_record(&file_id).cloned(): the caller's own copy
Checkout ==
    \E file_id \in FileIds :
        /\ files[file_id] # None
        /\ work' = files[file_id]
        /\ call' = [op |-> "file_record", file_id |-> file_id]
        /\ ret' = Ok
        /\ UNCHANGED <<files, registry, transfer_plan, transfer_progress, monitor_vars, device_vars>>

\* release_lock(&mut work, device_id)
LockRelease ==
    \E device_id \in DeviceIds :
        /\ work # None
        /\ call' = [op |-> "release_lock", file_id |-> work[1].file_id,
                    device_id |-> device_id]
        /\ ret' = release_lock(work[1], device_id).ret
        /\ work' = Some(release_lock(work[1], device_id).file)
        /\ UNCHANGED <<files, registry, transfer_plan, transfer_progress, monitor_vars, device_vars>>

\* the caller writes its copy back; the copy stays with the caller
Commit ==
    /\ work # None
    /\ upsert_file_record(work[1])

NextLock ==
    \/ LockUpsertFileRecord
    \/ LockSetLock
    \/ LockAcquire
    \/ LockStoreAcquired
    \/ LockCheckConflict
    \/ Checkout
    \/ LockRelease
    \/ Commit

SpecLock == Init /\ [][NextLock]_vars

\* C4: acquire_lock on an unlocked record yields Acquired, a lock of the
\* calling device for this record; on a record that holds such a lock it
\* yields Denied with the holder's device id and acquired_at, for every
\* caller, the holder included.  (A pure call: the record it saw is still the
\* stored one.)
C4_LockMutuallyExclusive ==
    call.op = "acquire_lock" =>
        LET file == files[call.file_id][1]
        IN  /\ file.lock = None =>
                /\ ret.kind = "Acquired"
                /\ ret.lock.owner_device_id = call.device_id
                /\ ret.lock.file_id = file.file_id
            /\ (file.lock # None /\ file.lock[1].file_id = file.file_id) =>
                /\ ret.kind = "Denied"
                /\ ret.holder_device = file.lock[1].owner_device_id
                /\ ret.acquired_at = file.lock[1].acquired_at

\* the holder itself asks again for the lock it holds and is denied; the lock
\* is one that acquire_lock returned and the caller stored (the locks handed
\* to set_lock directly all carry acquired_at = 1)
C4_Witness ==
    /\ call.op = "acquire_lock"
    /\ ret.kind = "Denied"
    /\ ret.holder_device = call.device_id
    /\ ret.acquired_at > 1

\* C5: the check_conflict truth table.
C5_ConflictTruthTable ==
    call.op = "check_conflict" =>
        LET file == files[call.file_id][1]
            unlocked == file.lock = None
            holds == ~ unlocked /\ file.lock[1].owner_device_id = call.device_id
            other == ~ unlocked /\ file.lock[1].owner_device_id # call.device_id
        IN  /\ ret.kind \in {"Allowed", "LockedBy", "Conflict"}
            /\ ret.kind = "Allowed" <=>
                    (holds \/ (unlocked /\ call.base_head = file.head_version_id))
            /\ ret.kind = "LockedBy" <=> other
            /\ ret.kind = "LockedBy" => ret.id = file.lock[1].owner_device_id
            /\ ret.kind = "Conflict" <=>
                    (unlocked /\ call.base_head # file.head_version_id)
            /\ ret.kind = "Conflict" =>
                    /\ ret.current_head = file.head_version_id
                    /\ ret.base_head = call.base_head

\* the holder writes from a stale base head and is allowed
C5_Witness ==
    /\ call.op = "check_conflict"
    /\ files[call.file_id][1].lock # None
    /\ files[call.file_id][1].lock[1].owner_device_id = call.device_id
    /\ call.base_head # files[call.file_id][1].head_version_id
    /\ ret.kind = "Allowed"

\* C6: release_lock by a device that is not the holder, or on an unlocked
\* record, returns Ok and leaves the record unchanged; it is never an error.
C6_ReleaseByNonHolderIsNoOp ==
    [][call'.op = "release_lock" =>
        /\ ret' = Ok
        /\ (work[1].lock = None \/ work[1].lock[1].owner_device_id # call'.device_id)
                => work' = work
        /\ work' \in {work, Some([work[1] EXCEPT !.lock = None])}]_vars

-----------------------------------------------------------------------------
(* Lock observability: mark_lock_blocked and check_conflict on a record the *)
(* caller holds.                                                            *)

\* the records a caller starts from: locked or not, any device states, the
\* states of one device repeated included
BlockedRecordInputs ==
    {FileRecord("f1", h, <<VersionRecord("v1", 1), VersionRecord("v2", 2)>>, l, ds) :
        h \in {"v1", "v2"},
        l \in {None} \cup {Some(LockRecord("f1", d, 1)) : d \in DeviceIds},
        ds \in SeqsUpTo({DeviceFileState(d, k) : d \in DeviceIds,
                                                   k \in DeviceFileStateKind},
                         MaxDeviceStates)}

InitBlocked ==
    /\ files = EmptyStore
    /\ registry = EmptyStore
    /\ work \in {Some(record) : record \in BlockedRecordInputs}
    /\ transfer_plan = TransferPlan(<< >>)
    /\ transfer_progress = new_progress
    /\ NoMonitor
    /\ held_locks = {}
    /\ in_flight = {}
    /\ serialized = TRUE
    /\ call = [op |-> "new"]
    /\ ret = Ok

\* mark_lock_blocked(&mut work, device_id)
BlockedMarkLockBlocked ==
    \E device_id \in DeviceIds :
        /\ call' = [op |-> "mark_lock_blocked", device_id |-> device_id]
        /\ ret' = Ok
        /\ work' = Some(mark_lock_blocked(work[1], device_id))
        /\ UNCHANGED <<files, registry, transfer_plan, transfer_progress, monitor_vars, device_vars>>

\* check_conflict(&work, caller_device, caller_base_head)
BlockedCheckConflict ==
    \E caller_device \in DeviceIds, caller_base_head \in VersionIds :
        /\ call' = [op |-> "check_conflict", device_id |-> caller_device,
                    base_head |-> caller_base_head]
        /\ ret' = check_conflict(work[1], caller_device, caller_base_head)
        /\ UNCHANGED <<files, registry, work, transfer_plan, transfer_progress, monitor_vars, device_vars>>

NextBlocked ==
    \/ BlockedMarkLockBlocked
    \/ BlockedCheckConflict

SpecBlocked == InitBlocked /\ [][NextBlocked]_vars

\* the positions of device_states that belong to the device
EntriesOf(file, device_id) ==
    {i \in 1..Len(file.device_states) : file.device_states[i].device_id = device_id}

\* C33: mark_lock_blocked sets the state of the device's entry (the first,
\* should there be several) to LockBlocked and leaves every other entry and
\* every other field of the entry as it is; without an entry for the device
\* the record is unchanged and no entry is added. lock, head_version_id and
\* versions are never changed, and check_conflict gives the same result for
\* every caller and base head before and after the call.
C33_MarkLockBlockedObservabilityOnly ==
    [][call'.op = "mark_lock_blocked" =>
        LET before == work[1]
            after == work'[1]
            own == EntriesOf(before, call'.device_id)
        IN  /\ own = {} => after = before
            /\ own # {} =>
                LET first == CHOOSE i \in own : \A k \in own : i <= k
                IN  /\ Len(after.device_states) = Len(before.device_states)
                    /\ after.device_states[first] =
                        DeviceFileState(call'.device_id, "LockBlocked")
                    /\ \A i \in 1..Len(before.device_states) :
                        i # first => after.device_states[i] = before.device_states[i]
            /\ after.lock = before.lock
            /\ after.head_version_id = before.head_version_id
            /\ after.versions = before.versions
            /\ after.file_id = before.file_id
            /\ \A caller_device \in DeviceIds, caller_base_head \in VersionIds :
                check_conflict(after, caller_device, caller_base_head) =
                    check_conflict(before, caller_device, caller_base_head)]_vars

\* the device blocked by another device's lock is marked, the holder's own
\* entry is still Ready
C33_Witness ==
    /\ call.op = "mark_lock_blocked"
    /\ work[1].lock # None
    /\ work[1].lock[1].owner_device_id # call.device_id
    /\ \E i \in 1..Len(work[1].device_states) :
            work[1].device_states[i] = DeviceFileState(call.device_id, "LockBlocked")
    /\ \E i \in 1..Len(work[1].device_states) :
            work[1].device_states[i] =
                DeviceFileState(work[1].lock[1].owner_device_id, "Ready")

-----------------------------------------------------------------------------
(* Version history: rollback_to_version and apply_retention on a record the *)
(* caller holds.                                                            *)

VersionInputs == {VersionRecord(v, t) : v \in VersionIds, t \in Times}

RetentionPolicies ==
    [max_versions : 0..MaxKeep, max_age : {None, Some(0), Some(1)}]

\* the records a caller starts from: valid, one or two versions, any head
InitVersioning ==
    /\ files = EmptyStore
    /\ registry = EmptyStore
    /\ \E vs \in SeqsUpTo(VersionInputs, 2), h \in VersionIds :
            /\ assert_file_invariants(FileRecord("f1", h, vs, None, << >>)) = Ok
            /\ work = Some(FileRecord("f1", h, vs, None, << >>))
    /\ transfer_plan = TransferPlan(<< >>)
    /\ transfer_progress = new_progress
    /\ NoMonitor
    /\ held_locks = {}
    /\ in_flight = {}
    /\ serialized = TRUE
    /\ call = [op |-> "new"]
    /\ ret = Ok

VersioningRollback ==
    \E target_version_id \in VersionIds, new_version \in VersionInputs :
        /\ Len(work[1].versions) < MaxVersions
        /\ call' = [op |-> "rollback_to_version", target |-> target_version_id,
                    new_version |-> new_version]
        /\ ret' = rollback_to_version(work[1], target_version_id, new_version).ret
        /\ work' = Some(rollback_to_version(work[1], target_version_id,
                                            new_version).file)
        /\ UNCHANGED <<files, registry, transfer_plan, transfer_progress, monitor_vars, device_vars>>

VersioningApplyRetention ==
    \E policy \in RetentionPolicies, now \in Times :
        /\ call' = [op |-> "apply_retention", policy |-> policy, now |-> now]
        /\ ret' = apply_retention(work[1], policy, now).ret
        /\ work' = Some(apply_retention(work[1], policy, now).file)
        /\ UNCHANGED <<files, registry, transfer_plan, transfer_progress, monitor_vars, device_vars>>

NextVersioning ==
    \/ VersioningRollback
    \/ VersioningApplyRetention

SpecVersioning == InitVersioning /\ [][NextVersioning]_vars

\* s is a prefix of t: every element of s is in t, unchanged, at its place
IsPrefix(s, t) == Len(s) <= Len(t) /\ SubSeq(t, 1, Len(s)) = s

Max(a, b) == IF a >= b THEN a ELSE b

VersionIdsOf(file) ==
    {file.versions[i].version_id : i \in 1..Len(file.versions)}

\* C8: rollback_to_version with a target that is no entry of versions returns
\* MissingVersion(target) and leaves the record unchanged; with a target that
\* exists and a new version whose id is fresh it returns Ok, versions is the
\* old list followed by new_version and the head is new_version's id.
C8_RollbackAppendsNewHead ==
    [][call'.op = "rollback_to_version" =>
        /\ call'.target \notin VersionIdsOf(work[1]) =>
            /\ ret' = Err("MissingVersion", call'.target)
            /\ work' = work
        /\ (/\ call'.target \in VersionIdsOf(work[1])
            /\ call'.new_version.version_id \notin VersionIdsOf(work[1])) =>
            /\ ret' = Ok
            /\ work'[1].versions = Append(work[1].versions, call'.new_version)
            /\ work'[1].head_version_id = call'.new_version.version_id]_vars

\* C9: on a valid record apply_retention keeps head_version_id as it is and
\* keeps the version it names.
C9_RetentionKeepsHead ==
    [][(call'.op = "apply_retention" /\ assert_file_invariants(work[1]) = Ok) =>
        /\ work'[1].head_version_id = work[1].head_version_id
        /\ HeadPresent(work'[1])]_vars

\* the head is older than the age cutoff of the call and is still there
C9_Witness ==
    /\ call.op = "apply_retention"
    /\ ret = Ok
    /\ call.policy.max_age # None
    /\ \E i \in 1..Len(work[1].versions) :
            /\ work[1].versions[i].version_id = work[1].head_version_id
            /\ work[1].versions[i].timestamp < call.now - call.policy.max_age[1]

\* several versions carry the timestamp at the retention boundary of the call
TiesAtBoundary(file, policy, now) ==
    LET sorted == sort_by_timestamp(retain_by_age(file, policy, now))
        keep_from == Len(sorted) - policy.max_versions
    IN  /\ keep_from >= 0
        /\ keep_from + 1 <= Len(sorted)
        /\ Cardinality({i \in 1..Len(sorted) :
                sorted[i].timestamp = sorted[keep_from + 1].timestamp}) > 1

\* C10: on a valid record a returning apply_retention leaves at most
\* max(1, max_versions) versions unless versions tie at the boundary timestamp.
C10_RetentionBoundsCount ==
    [][(/\ call'.op = "apply_retention"
        /\ ret'.kind # "panic"
        /\ assert_file_invariants(work[1]) = Ok
        /\ ~ TiesAtBoundary(work[1], call'.policy, call'.now))
       => Len(work'[1].versions) <= Max(1, call'.policy.max_versions)]_vars

\* the versions left by the age phase: with max_age set, the head and every
\* version not older than now - max_age
AgePhase(file, policy, now) ==
    IF policy.max_age = None THEN file.versions
    ELSE retain(file.versions,
                {v \in Elements(file.versions) :
                    \/ v.version_id = file.head_version_id
                    \/ v.timestamp >= now - policy.max_age[1]})

\* the timestamp at position k, counted from 0, of the versions in ascending
\* order of timestamp
TimestampAt(versions, k) ==
    CHOOSE t \in {versions[i].timestamp : i \in 1..Len(versions)} :
        /\ Cardinality({i \in 1..Len(versions) : versions[i].timestamp < t}) <= k
        /\ k < Cardinality({i \in 1..Len(versions) : versions[i].timestamp <= t})

\* the set of versions the two phases leave; with max_versions = 0 there is
\* no position count - max_versions and the count phase has nothing to cut at
TwoPhaseReference(file, policy, now) ==
    LET remaining == AgePhase(file, policy, now)
        count == Len(remaining)
    IN  IF count > policy.max_versions /\ policy.max_versions > 0
        THEN {v \in Elements(remaining) :
                \/ v.version_id = file.head_version_id
                \/ v.timestamp >= TimestampAt(remaining, count - policy.max_versions)}
        ELSE Elements(remaining)

\* C29: apply_retention returns with the set of versions of the two-phase
\* reference: the age phase, when max_age is set, keeps the head and the
\* versions not older than now - max_age; the count phase, when more than
\* max_versions remain, keeps the head and the versions not older than the
\* one at position count - max_versions in ascending order of timestamp. When
\* neither phase applies the record is unchanged.
C29_RetentionIsTwoPhase ==
    [][call'.op = "apply_retention" =>
        LET policy == call'.policy
            now == call'.now
        IN  /\ ret'.kind # "panic"
            /\ Elements(work'[1].versions) = TwoPhaseReference(work[1], policy, now)
            /\ (/\ policy.max_age = None
                /\ Len(work[1].versions) <= policy.max_versions)
               => work' = work]_vars

\* C30: apply_retention on a valid record returns Ok for every policy,
\* max_versions = 0 included, without aborting, and leaves a valid record
\* with the same head, the head being one of its versions.
C30_RetentionTotalOnValidRecords ==
    [][(call'.op = "apply_retention" /\ assert_file_invariants(work[1]) = Ok) =>
        /\ ret' = Ok
        /\ assert_file_invariants(work'[1]) = Ok
        /\ work'[1].head_version_id = work[1].head_version_id]_vars

\* C31: list_versions after a returning apply_retention lists the surviving
\* versions in the relative order they had before the call, which for a
\* record built by appending is the order of insertion.
C31_RetentionKeepsInsertionOrder ==
    [][(call'.op = "apply_retention" /\ ret' = Ok) =>
        list_versions(work'[1]) =
            retain(list_versions(work[1]), Elements(list_versions(work'[1])))]_vars

\* C32: a rollback_to_version that returns an invariant violation of
\* model.rs leaves the record as it was before the call.
C32_FailedRollbackLeavesRecord ==
    [][(call'.op = "rollback_to_version" /\ ret'.kind \in ModelErrors) =>
        work' = work]_vars

\* C36: on a valid record, one more apply_retention with the policy and the
\* clock reading of the call just made returns what that call returned and
\* leaves the same set of versions and the same head.
C36_RetentionIdempotent ==
    [][(call'.op = "apply_retention" /\ assert_file_invariants(work[1]) = Ok) =>
        LET second == apply_retention(work'[1], call'.policy, call'.now)
        IN  /\ second.ret = ret'
            /\ Elements(second.file.versions) = Elements(work'[1].versions)
            /\ second.file.head_version_id = work'[1].head_version_id]_vars

\* a retention that returned Ok and left more versions than max_versions, so
\* that one more call enters the count phase again
C36_Witness ==
    /\ call.op = "apply_retention"
    /\ ret = Ok
    /\ call.policy.max_versions >= 1
    /\ Len(work[1].versions) > call.policy.max_versions
    /\ assert_file_invariants(work[1]) = Ok

-----------------------------------------------------------------------------
(* History of one file across the store and the caller's copy:              *)
(* append_version on the stored record, rollback_to_version on the copy.    *)

HistoryVersionInputs == {VersionRecord(v, 1) : v \in VersionIds}

HistoryUpsertFileRecord ==
    upsert_file_record(FileRecord("f1", "v1", <<VersionRecord("v1", 1)>>, None, << >>))

HistoryAppendVersion ==
    \E version_id \in VersionIds, version_record \in HistoryVersionInputs :
        /\ files["f1"] # None => Len(files["f1"][1].versions) < MaxVersions
        /\ append_version("f1", version_id, version_record)

HistoryRollback ==
    \E target_version_id \in VersionIds, new_version \in HistoryVersionInputs :
        /\ work # None
        /\ Len(work[1].versions) < MaxVersions
        /\ call' = [op |-> "rollback_to_version", target |-> target_version_id,
                    new_version |-> new_version]
        /\ ret' = rollback_to_version(work[1], target_version_id, new_version).ret
        /\ work' = Some(rollback_to_version(work[1], target_version_id,
                                            new_version).file)
        /\ UNCHANGED <<files, registry, transfer_plan, transfer_progress, monitor_vars, device_vars>>

NextHistory ==
    \/ HistoryUpsertFileRecord
    \/ HistoryAppendVersion
    \/ Checkout
    \/ HistoryRollback
    \/ Commit

SpecHistory == Init /\ [][NextHistory]_vars

\* C7: append_version and rollback_to_version only ever add at the end: the
\* versions stored before the call are a prefix of the versions after it.
C7_HistoryAppendOnly ==
    [][/\ call'.op = "append_version" =>
            \A f \in FileIds :
                files[f] # None =>
                    /\ files'[f] # None
                    /\ IsPrefix(files[f][1].versions, files'[f][1].versions)
       /\ call'.op = "rollback_to_version" =>
            IsPrefix(work[1].versions, work'[1].versions)]_vars

\* a version was appended in the store, the record was taken out and rolled
\* back to its first version
C7_Witness ==
    /\ call.op = "rollback_to_version"
    /\ ret = Ok
    /\ work # None /\ Len(work[1].versions) = 3
    /\ files["f1"] # None /\ Len(files["f1"][1].versions) = 2
    /\ call.target = work[1].versions[1].version_id

-----------------------------------------------------------------------------
(* One transfer: a plan fixed at the start and a fresh TransferProgress     *)
(* under mark_done, mark_failed, is_complete and next_chunk.                *)

ChunkInputs == {ChunkRef(0, 10), ChunkRef(10, 10), ChunkRef(20, 10)}

\* the offsets handed to mark_done / mark_failed; 30 is in no plan
Offsets == {0, 10, 20, 30}

PlanInputs == {TransferPlan(chunks) : chunks \in SeqsUpTo(ChunkInputs, MaxChunks)}

InitTransfer ==
    /\ files = EmptyStore
    /\ registry = EmptyStore
    /\ work = None
    /\ transfer_plan \in PlanInputs
    /\ transfer_progress = new_progress
    /\ NoMonitor
    /\ held_locks = {}
    /\ in_flight = {}
    /\ serialized = TRUE
    /\ call = [op |-> "new"]
    /\ ret = Ok

\* again: the call before this one was mark_done of the same offset
TransferMarkDone ==
    \E offset \in Offsets :
        /\ call' = [op |-> "mark_done", offset |-> offset,
                    again |-> (call.op = "mark_done" /\ call.offset = offset)]
        /\ ret' = Ok
        /\ transfer_progress' = mark_done(transfer_progress, offset)
        /\ UNCHANGED <<files, registry, work, transfer_plan, monitor_vars, device_vars>>

TransferMarkFailed ==
    \E offset \in Offsets :
        /\ call' = [op |-> "mark_failed", offset |-> offset]
        /\ ret' = Ok
        /\ transfer_progress' = mark_failed(transfer_progress, offset)
        /\ UNCHANGED <<files, registry, work, transfer_plan, monitor_vars, device_vars>>

TransferIsComplete ==
    /\ call' = [op |-> "is_complete"]
    /\ ret' = is_complete(transfer_progress, transfer_plan)
    /\ UNCHANGED <<files, registry, work, transfer_plan, transfer_progress, monitor_vars, device_vars>>

TransferNextChunk ==
    /\ call' = [op |-> "next_chunk"]
    /\ ret' = next_chunk(transfer_plan, transfer_progress)
    /\ UNCHANGED <<files, registry, work, transfer_plan, transfer_progress, monitor_vars, device_vars>>

NextTransfer ==
    \/ TransferMarkDone
    \/ TransferMarkFailed
    \/ TransferIsComplete
    \/ TransferNextChunk

SpecTransfer == InitTransfer /\ [][NextTransfer]_vars

\* C18: mark_done of an offset that was just marked done changes neither the
\* completed set nor the failed set, and after any mark_done one more
\* mark_done of the same offset would change nothing.
C18_MarkDoneIdempotent ==
    [][call'.op = "mark_done" =>
        /\ mark_done(transfer_progress', call'.offset) = transfer_progress'
        /\ call'.again => transfer_progress' = transfer_progress]_vars

\* mark_done was called twice in a row for a chunk of the plan while another
\* offset is recorded as failed
C18_Witness ==
    /\ call.op = "mark_done"
    /\ call.again
    /\ \E i \in 1..Len(transfer_plan.chunks) :
            transfer_plan.chunks[i].offset = call.offset
    /\ call.offset \in transfer_progress.completed_chunks
    /\ transfer_progress.failed_chunks # {}

\* the positions of the plan whose offset is not completed
OpenChunks ==
    {i \in 1..Len(transfer_plan.chunks) :
        transfer_plan.chunks[i].offset \notin transfer_progress.completed_chunks}

\* C19: is_complete is true exactly when the offset of every chunk of the
\* plan is completed, and next_chunk is none exactly when is_complete is
\* true; mark_done puts its offset into the completed set and no call takes
\* an offset out of it, so once mark_done was called for every offset of the
\* plan, whatever mark_failed calls came in between, next_chunk is none and
\* is_complete is true.
C19_CompleteIffAllDone ==
    /\ [](/\ is_complete(transfer_progress, transfer_plan) <=> OpenChunks = {}
          /\ next_chunk(transfer_plan, transfer_progress) = None
                <=> is_complete(transfer_progress, transfer_plan)
          /\ call.op = "is_complete" => (ret <=> OpenChunks = {})
          /\ call.op = "next_chunk" => (ret = None <=> OpenChunks = {}))
    /\ [][/\ call'.op = "mark_done" =>
                call'.offset \in transfer_progress'.completed_chunks
          /\ transfer_progress.completed_chunks
                \subseteq transfer_progress'.completed_chunks]_vars

\* is_complete answered true for a plan of three chunks at two or more
\* offsets, with a failure on record
C19_Witness ==
    /\ call.op = "is_complete"
    /\ ret = TRUE
    /\ Len(transfer_plan.chunks) = 3
    /\ transfer_plan.chunks[1].offset # transfer_plan.chunks[2].offset
    /\ transfer_progress.failed_chunks # {}
    /\ next_chunk(transfer_plan, transfer_progress) = None

\* C20: next_chunk returns the first chunk, in plan order, whose offset is
\* not completed: every chunk before it is completed, and it is returned
\* whether or not its offset is recorded as failed; it returns none when
\* there is no such chunk.
C20_NextChunkIsFirstOpen ==
    call.op = "next_chunk" =>
        IF OpenChunks = {} THEN ret = None
        ELSE \E i \in OpenChunks :
                /\ ret = Some(transfer_plan.chunks[i])
                /\ \A j \in 1..(i - 1) :
                        transfer_plan.chunks[j].offset
                            \in transfer_progress.completed_chunks

\* next_chunk returned the second chunk of the plan, whose offset is recorded
\* as failed
C20_Witness ==
    /\ call.op = "next_chunk"
    /\ ret # None
    /\ ret[1].offset \in transfer_progress.failed_chunks
    /\ Len(transfer_plan.chunks) >= 2
    /\ ret[1] = transfer_plan.chunks[2]
    /\ transfer_plan.chunks[1].offset \in transfer_progress.completed_chunks

\* C21: after any mark_done and mark_failed calls on a new progress no offset
\* is both completed and failed; mark_failed of a completed offset changes
\* nothing, mark_done takes its offset out of the failed set, and no call
\* takes an offset out of the completed set.
C21_CompletionWinsOverFailure ==
    /\ [](transfer_progress.completed_chunks
            \cap transfer_progress.failed_chunks = {})
    /\ [][/\ (/\ call'.op = "mark_failed"
               /\ call'.offset \in transfer_progress.completed_chunks)
              => transfer_progress' = transfer_progress
          /\ call'.op = "mark_done" =>
                /\ call'.offset \notin transfer_progress'.failed_chunks
                /\ call'.offset \in transfer_progress'.completed_chunks
          /\ transfer_progress.completed_chunks
                \subseteq transfer_progress'.completed_chunks]_vars

\* mark_failed was called for an offset that had failed before and was
\* completed since
C21_Witness ==
    /\ call.op = "mark_failed"
    /\ call.offset \in transfer_progress.completed_chunks
    /\ call.offset \notin transfer_progress.failed_chunks
    /\ transfer_progress.failed_chunks # {}
    /\ Len(transfer_plan.chunks) >= 1

-----------------------------------------------------------------------------
(* The transfer driver: it takes next_chunk, then reports the offered       *)
(* chunk's offset with mark_done or mark_failed, and asks again. Once the   *)
(* transfer is complete any further mark_done / mark_failed may arrive.     *)
(* Here ret is an Option<&ChunkRef> throughout, the result of next_chunk;   *)
(* mark_done and mark_failed return nothing, which leaves it none.          *)

InitDriver ==
    /\ files = EmptyStore
    /\ registry = EmptyStore
    /\ work = None
    /\ transfer_plan \in PlanInputs
    /\ transfer_progress = new_progress
    /\ NoMonitor
    /\ held_locks = {}
    /\ in_flight = {}
    /\ serialized = TRUE
    /\ call = [op |-> "new"]
    /\ ret = None

\* the driver holds a chunk that next_chunk has just offered
Offered == call.op = "next_chunk" /\ ret # None

DriverNextChunk ==
    /\ ~ Offered
    /\ call' = [op |-> "next_chunk"]
    /\ ret' = next_chunk(transfer_plan, transfer_progress)
    /\ UNCHANGED <<files, registry, work, transfer_plan, transfer_progress, monitor_vars, device_vars>>

\* retried: the offset was recorded as failed when it was marked done
DriverMarkDone ==
    /\ Offered
    /\ call' = [op |-> "mark_done", offset |-> ret[1].offset,
                retried |-> ret[1].offset \in transfer_progress.failed_chunks]
    /\ ret' = None
    /\ transfer_progress' = mark_done(transfer_progress, ret[1].offset)
    /\ UNCHANGED <<files, registry, work, transfer_plan, monitor_vars, device_vars>>

DriverMarkFailed ==
    /\ Offered
    /\ call' = [op |-> "mark_failed", offset |-> ret[1].offset]
    /\ ret' = None
    /\ transfer_progress' = mark_failed(transfer_progress, ret[1].offset)
    /\ UNCHANGED <<files, registry, work, transfer_plan, monitor_vars, device_vars>>

\* a mark_done of any offset after the transfer is complete
DriverLateMarkDone ==
    \E offset \in Offsets :
        /\ is_complete(transfer_progress, transfer_plan)
        /\ call' = [op |-> "mark_done", offset |-> offset, retried |-> FALSE]
        /\ ret' = None
        /\ transfer_progress' = mark_done(transfer_progress, offset)
        /\ UNCHANGED <<files, registry, work, transfer_plan, monitor_vars, device_vars>>

\* a mark_failed of any offset after the transfer is complete
DriverLateMarkFailed ==
    \E offset \in Offsets :
        /\ is_complete(transfer_progress, transfer_plan)
        /\ call' = [op |-> "mark_failed", offset |-> offset]
        /\ ret' = None
        /\ transfer_progress' = mark_failed(transfer_progress, offset)
        /\ UNCHANGED <<files, registry, work, transfer_plan, monitor_vars, device_vars>>

NextDriver ==
    \/ DriverNextChunk
    \/ DriverMarkDone
    \/ DriverMarkFailed
    \/ DriverLateMarkDone
    \/ DriverLateMarkFailed

\* the driver keeps asking for the next chunk, and a chunk that is offered
\* again and again is eventually marked done
SpecDriver ==
    /\ InitDriver
    /\ [][NextDriver]_vars
    /\ WF_vars(DriverNextChunk)
    /\ SF_vars(DriverMarkDone)

\* C34: under the driver with a fair mark_done every plan is eventually
\* complete, and once it is complete it stays complete and next_chunk is
\* none in every later state, whatever mark_done / mark_failed calls follow;
\* a next_chunk call made from then on has returned none.
C34_TransferTerminates ==
    /\ <>is_complete(transfer_progress, transfer_plan)
    /\ [](is_complete(transfer_progress, transfer_plan) =>
            [](/\ is_complete(transfer_progress, transfer_plan)
               /\ next_chunk(transfer_plan, transfer_progress) = None
               /\ call.op = "next_chunk" => ret = None))

\* a plan of several chunks is complete, and its last chunk was marked done
\* after it had failed
C34_Witness ==
    /\ Len(transfer_plan.chunks) >= 2
    /\ is_complete(transfer_progress, transfer_plan)
    /\ call.op = "mark_done"
    /\ call.retried
    /\ call.offset = transfer_plan.chunks[Len(transfer_plan.chunks)].offset

-----------------------------------------------------------------------------
(* The retry decision: can_retry on any offset, attempt number and policy.  *)

\* RetryPolicy.backoff, in seconds
Backoffs == {0, 1}

RetryPolicies ==
    {RetryPolicy(max_attempts, backoff) :
        max_attempts \in 0..MaxAttempts, backoff \in Backoffs}

RetryCanRetry ==
    \E offset \in Offsets, attempt \in 0..MaxAttempts, policy \in RetryPolicies :
        /\ call' = [op |-> "can_retry", offset |-> offset, attempt |-> attempt,
                    policy |-> policy]
        /\ ret' = can_retry(offset, attempt, policy)
        /\ UNCHANGED <<files, registry, work, transfer_plan, transfer_progress, monitor_vars, device_vars>>

NextRetry == RetryCanRetry

SpecRetry == Init /\ [][NextRetry]_vars

\* C22: can_retry(offset, attempt, policy) returns Ok exactly when attempt is
\* below policy.max_attempts and MaxRetries(offset) otherwise, and the same
\* result for every value of policy.backoff.
C22_CanRetryBelowMaxAttempts ==
    call.op = "can_retry" =>
        /\ ret = Ok <=> call.attempt < call.policy.max_attempts
        /\ ret # Ok => ret = Err("MaxRetries", call.offset)
        /\ \A backoff \in Backoffs :
                can_retry(call.offset, call.attempt,
                          RetryPolicy(call.policy.max_attempts, backoff)) = ret

\* the attempt whose number equals max_attempts was refused
C22_Witness ==
    /\ call.op = "can_retry"
    /\ ret = Err("MaxRetries", call.offset)
    /\ call.attempt = call.policy.max_attempts
    /\ call.attempt > 0
    /\ call.policy.backoff = 1

-----------------------------------------------------------------------------
(* upsert_file_record on records a caller has built, valid or not, for      *)
(* both files, next to registry entries.                                    *)

UpsertRecordInputs ==
    {FileRecord(f, h, vs, None, ds) :
        f \in FileIds,
        h \in StoreVersionIds,
        vs \in SeqsUpTo(StoreVersionInputs, MaxStoreVersions),
        ds \in {<< >>, <<DeviceFileState("dA", "Ready"),
                         DeviceFileState("dA", "LockBlocked")>>}}

\* the caller builds the record it is going to hand over
UpsertBuildRecord ==
    \E record \in UpsertRecordInputs :
        /\ work' = Some(record)
        /\ call' = [op |-> "FileRecord"]
        /\ ret' = Ok
        /\ UNCHANGED <<files, registry, transfer_plan, transfer_progress, monitor_vars, device_vars>>

UpsertRegistryEntry ==
    \E entry \in RegistryEntryInputs : upsert_registry_entry(entry)

NextUpsert ==
    \/ UpsertBuildRecord
    \/ Commit
    \/ UpsertRegistryEntry

SpecUpsert == Init /\ [][NextUpsert]_vars

\* C23: upsert_file_record of a record that fails assert_file_invariants
\* returns that ModelError and changes nothing, so a record stored under the
\* same file_id stays as it was; a valid record is stored as it is in place
\* of the old one, and no other file record and no registry entry changes.
C23_UpsertValidatesBeforeReplacing ==
    [][call'.op = "upsert_file_record" =>
        LET record == work[1]
            valid == /\ HeadPresent(record)
                     /\ NoDuplicateVersions(record)
                     /\ OneStatePerDevice(record)
        IN  /\ ret' = Ok <=> valid
            /\ ~valid =>
                /\ ret' = assert_file_invariants(record)
                /\ ret'.kind \in ModelErrors
                /\ files' = files
                /\ registry' = registry
            /\ valid =>
                /\ files'[record.file_id] = Some(record)
                /\ \A g \in FileIds \ {record.file_id} : files'[g] = files[g]
                /\ registry' = registry]_vars

\* an invalid record was refused while a different record of the same file,
\* a record of the other file and a registry entry are stored
C23_Witness ==
    /\ call.op = "upsert_file_record"
    /\ ret.kind \in ModelErrors
    /\ work # None
    /\ files[work[1].file_id] # None
    /\ files[work[1].file_id] # work
    /\ \A g \in FileIds : files[g] # None
    /\ \E g \in FileIds : registry[g] # None

-----------------------------------------------------------------------------
(* The local preferences of registry entries that carry a path, a local     *)
(* version, a pin and an error.                                             *)

PreferencesEntryInputs ==
    {[LocalRegistryEntry("f1", <<PathBinding("/tmp/a", 1, FALSE)>>, Some("v1"),
                         "FullyPresent", "Approved", "OnEdit", Some("io error"))
        EXCEPT !.pin = "KeepLatest"],
     LocalRegistryEntry("f2", <<PathBinding("/tmp/b", 1, TRUE)>>, None,
                        "None", "Revoked", "Manual", None)}

\* Option<T> over the values of T
OptionOf(T) == {None} \cup {Some(x) : x \in T}

PreferencesUpsertRegistryEntry ==
    \E entry \in PreferencesEntryInputs : upsert_registry_entry(entry)

PreferencesSetLocalPreferences ==
    \E file_id \in FileIds, hydration \in OptionOf(Hydration),
       consent \in OptionOf(Consent), auto_lock \in OptionOf(AutoLockPreference) :
        set_local_preferences(file_id, hydration, consent, auto_lock)

NextPreferences ==
    \/ PreferencesUpsertRegistryEntry
    \/ PreferencesSetLocalPreferences

SpecPreferences == Init /\ [][NextPreferences]_vars

\* C24: set_local_preferences on a file with a registry entry returns Ok;
\* each of hydration, consent and auto-lock preference keeps its value when
\* the argument is absent and takes the argument's value when it is present;
\* file_id, paths, local_version_id, pin and last_error of the entry and the
\* other entries stay as they were.
C24_PreferencesChangeAsSupplied ==
    [][(call'.op = "set_local_preferences" /\ registry[call'.file_id] # None) =>
        /\ ret' = Ok
        /\ registry'[call'.file_id] # None
        /\ LET old == registry[call'.file_id][1]
               new == registry'[call'.file_id][1]
           IN  /\ new.hydration = IF call'.hydration = None THEN old.hydration
                                  ELSE call'.hydration[1]
               /\ new.consent = IF call'.consent = None THEN old.consent
                                ELSE call'.consent[1]
               /\ new.auto_lock_preference =
                    IF call'.auto_lock = None THEN old.auto_lock_preference
                    ELSE call'.auto_lock[1]
               /\ new.file_id = old.file_id
               /\ new.paths = old.paths
               /\ new.local_version_id = old.local_version_id
               /\ new.pin = old.pin
               /\ new.last_error = old.last_error
        /\ \A g \in FileIds \ {call'.file_id} : registry'[g] = registry[g]]_vars

\* only the consent was supplied, for an entry whose hydration had been
\* changed before and which carries a path, a local version, a pin and an
\* error
C24_Witness ==
    /\ call.op = "set_local_preferences"
    /\ ret = Ok
    /\ call.hydration = None /\ call.auto_lock = None
    /\ call.consent = Some("Revoked")
    /\ registry[call.file_id] # None
    /\ registry[call.file_id][1].consent = "Revoked"
    /\ registry[call.file_id][1].hydration = "Partial"
    /\ registry[call.file_id][1].pin = "KeepLatest"
    /\ registry[call.file_id][1].last_error # None
    /\ Len(registry[call.file_id][1].paths) = 1

-----------------------------------------------------------------------------
(* The file monitor: watch makes the channel, sets up one watcher per path  *)
(* in turn, each holding a clone of the channel's Sender, and then spawns   *)
(* the worker, the only receiver; watch_recursive does the same with one    *)
(* recursive watcher. A watcher sends results from the moment it is set up, *)
(* whenever its backend reports; dropping the FileMonitor drops the         *)
(* watchers one after the other.                                            *)
(* worker: "none" without a channel, "unspawned" while watch or             *)
(* watch_recursive is setting up, then "running" and "exited".              *)

\* what a watcher on a path sends: Ok(event) or Err(notify::Error)
ResultsOf(path) ==
    {[kind |-> "Ok", event |-> Event("Create(File)", <<path>>)],
     [kind |-> "Ok", event |-> Event("Modify(Name(To))", <<path>>)],
     [kind |-> "Err"]}

\* the number of results the watchers have sent so far
TotalSent ==
    LET F[i \in 0..Len(watchers)] ==
            IF i = 0 THEN 0 ELSE F[i - 1] + watchers[i].sent
    IN  F[Len(watchers)]

\* every Sender is dropped
AllClosed == \A i \in 1..Len(watchers) : ~ watchers[i].open

\* watch is entered with none, one, two, ... distinct paths: the Vec of
\* watchers is empty and the channel is made
MonitorWatch ==
    \E k \in 0..MaxWatchers :
        /\ worker = "none"
        /\ call' = [op |-> "watch",
                    paths |-> SubSeq(<<"/tmp/a", "/tmp/b", "/tmp/c", "/tmp/d">>, 1, k)]
        /\ ret' = [kind |-> "pending"]
        /\ watchers' = << >>
        /\ channel' = << >>
        /\ sink' = << >>
        /\ worker' = "unspawned"
        /\ UNCHANGED <<files, registry, work, transfer_plan, transfer_progress, device_vars>>

\* watch_recursive is entered with a directory: the channel is made
MonitorWatchRecursive ==
    /\ worker = "none"
    /\ call' = [op |-> "watch_recursive", paths |-> <<"/tmp/a">>]
    /\ ret' = [kind |-> "pending"]
    /\ watchers' = << >>
    /\ channel' = << >>
    /\ sink' = << >>
    /\ worker' = "unspawned"
    /\ UNCHANGED <<files, registry, work, transfer_plan, transfer_progress, device_vars>>

\* the watcher of the next path: RecommendedWatcher::new and watcher.watch,
\* non-recursive in watch and recursive in watch_recursive. When either
\* fails, the `?` returns the error and drops the watchers made so far and
\* the channel with what they sent.
MonitorAddWatcher ==
    \E ok \in BOOLEAN :
        /\ worker = "unspawned"
        /\ Len(watchers) < Len(call.paths)
        /\ IF ok
           THEN /\ watchers' = Append(watchers,
                        [path |-> call.paths[Len(watchers) + 1],
                         mode |-> IF call.op = "watch" THEN "NonRecursive"
                                                       ELSE "Recursive",
                         open |-> TRUE, sent |-> 0])
                /\ UNCHANGED <<channel, worker, ret>>
           ELSE /\ ret' = [kind |-> "Notify"]
                /\ watchers' = << >>
                /\ channel' = << >>
                /\ worker' = "none"
        /\ UNCHANGED <<files, registry, work, transfer_plan, transfer_progress, device_vars,
                       sink, call>>

\* every path has its watcher: NoPaths when there was none, otherwise the
\* worker is spawned on the receiver and the FileMonitor is returned
MonitorSpawn ==
    /\ worker = "unspawned"
    /\ Len(watchers) = Len(call.paths)
    /\ IF call.paths = << >>
       THEN /\ ret' = [kind |-> "NoPaths"]
            /\ worker' = "none"
       ELSE /\ ret' = Ok
            /\ worker' = "running"
    /\ UNCHANGED <<files, registry, work, transfer_plan, transfer_progress, device_vars,
                   watchers, channel, sink, call>>

\* a watcher sends a result; from and n, the sending watcher and the number
\* of the result among those it sent, are kept to state the order and are
\* read by no operation. What is sent before the worker is spawned waits in
\* the channel; a send after the receiver is gone fails and the failure is
\* ignored.
WatcherSend ==
    \E i \in 1..Len(watchers) :
        \E res \in ResultsOf(watchers[i].path) :
            /\ watchers[i].open
            /\ TotalSent < MaxEvents
            /\ watchers' = [watchers EXCEPT ![i].sent = @ + 1]
            /\ channel' = IF worker \in {"unspawned", "running"}
                          THEN Append(channel, [from |-> i, n |-> watchers[i].sent + 1,
                                                res |-> res])
                          ELSE channel
            /\ UNCHANGED <<files, registry, work, transfer_plan, transfer_progress, device_vars,
                           sink, worker, call, ret>>

\* drop(FileMonitor), once watch has returned it: the Vec of watchers is
\* dropped front to back
FileMonitorDrop ==
    \E i \in 1..Len(watchers) :
        /\ worker \in {"running", "exited"}
        /\ watchers[i].open
        /\ \A k \in 1..(i - 1) : ~ watchers[k].open
        /\ watchers' = [watchers EXCEPT ![i].open = FALSE]
        /\ UNCHANGED <<files, registry, work, transfer_plan, transfer_progress, device_vars,
                       channel, sink, worker, call, ret>>

\* Ok(event): normalize and hand to the sink
WorkerHandle ==
    /\ worker = "running"
    /\ channel # << >>
    /\ Head(channel).res.kind = "Ok"
    /\ LET normalized == normalize_event(Head(channel).res.event)
       IN  sink' = IF normalized # None
                   THEN Append(sink, [event |-> normalized[1],
                                      from |-> Head(channel).from,
                                      n |-> Head(channel).n])
                   ELSE sink
    /\ channel' = Tail(channel)
    /\ UNCHANGED <<files, registry, work, transfer_plan, transfer_progress, device_vars,
                   watchers, worker, call, ret>>

\* Err(_) => break: the receiver is dropped with what is still queued
WorkerBreak ==
    /\ worker = "running"
    /\ channel # << >>
    /\ Head(channel).res.kind = "Err"
    /\ worker' = "exited"
    /\ channel' = << >>
    /\ UNCHANGED <<files, registry, work, transfer_plan, transfer_progress, device_vars,
                   watchers, sink, call, ret>>

\* the iteration over rx ends: nothing queued and every Sender dropped
WorkerExit ==
    /\ worker = "running"
    /\ channel = << >>
    /\ AllClosed
    /\ worker' = "exited"
    /\ UNCHANGED <<files, registry, work, transfer_plan, transfer_progress, device_vars,
                   watchers, channel, sink, call, ret>>

NextMonitor ==
    \/ MonitorWatch
    \/ MonitorWatchRecursive
    \/ MonitorAddWatcher
    \/ MonitorSpawn
    \/ WatcherSend
    \/ FileMonitorDrop
    \/ WorkerHandle
    \/ WorkerBreak
    \/ WorkerExit

\* the worker thread is scheduled as long as it can take a step
SpecMonitor ==
    /\ Init
    /\ [][NextMonitor]_vars
    /\ WF_vars(WorkerHandle \/ WorkerBreak \/ WorkerExit)

\* the events of each watcher reach the sink without gap or repetition, in
\* the order they were sent
HandledInOrder ==
    \A j \in 1..Len(sink) :
        sink[j].n = 1 + Cardinality({l \in 1..(j - 1) : sink[l].from = sink[j].from})

\* C35: the worker takes the results from the head of the channel, one per
\* step; for each Ok result it calls the sink once with the normalized
\* event, so the sink sees the events in channel order and those of one
\* watcher in sending order; it leaves the loop only with the channel empty
\* and every sender dropped, or on an Err result; after that the sink gets
\* nothing more; and once every sender is dropped it does leave the loop.
C35_WorkerIsOrderedConsumer ==
    /\ []HandledInOrder
    /\ [][/\ (worker = "running" /\ Len(channel') < Len(channel)) =>
                \/ /\ Head(channel).res.kind = "Ok"
                   /\ channel' = Tail(channel)
                   /\ worker' = "running"
                   /\ sink' = Append(sink,
                        [event |-> FileEvent(primary_path(Head(channel).res.event),
                                             normalized_kind(Head(channel).res.event)),
                         from |-> Head(channel).from, n |-> Head(channel).n])
                \/ /\ Head(channel).res.kind = "Err"
                   /\ worker' = "exited"
                   /\ sink' = sink
          /\ sink' # sink => (worker = "running" /\ Len(channel') < Len(channel))
          /\ (worker = "running" /\ worker' = "exited") =>
                \/ channel = << >> /\ AllClosed
                \/ channel # << >> /\ Head(channel).res.kind = "Err"
          /\ worker = "exited" => (worker' = "exited" /\ sink' = sink)]_vars
    /\ (worker = "running" /\ AllClosed) ~> (worker = "exited")

\* the worker has left the loop on an Err result, with senders still open,
\* after it handed events of two watchers to the sink
C35_Witness ==
    /\ worker = "exited"
    /\ ~ AllClosed
    /\ \E i, j \in 1..Len(sink) : sink[i].from # sink[j].from
    /\ TotalSent > Len(sink)

-----------------------------------------------------------------------------
(* Several devices on one store. A device's step is "read the stored        *)
(* record, acquire_lock, set_lock with the Acquired record" or "read,       *)
(* release_lock, store the result". lock.rs and the store take no lock of   *)
(* their own, so a call of one device may come between the two halves of    *)
(* another device's step, on the same file or on another. A device itself   *)
(* is sequential: it writes its result back before its next call.           *)
(* serialized records whether the devices kept the steps on a file apart,   *)
(* the discipline the store asks of them.                                   *)

\* the store holds a valid, unlocked record for f1 and possibly one for f2
InitDevices ==
    /\ \E both \in BOOLEAN :
            LET versions == <<VersionRecord("v1", 1), VersionRecord("v2", 2)>>
            IN  files = [EmptyStore EXCEPT
                    !["f1"] = Some(FileRecord("f1", "v2", versions, None, << >>)),
                    !["f2"] = IF both
                              THEN Some(FileRecord("f2", "v2", versions, None, << >>))
                              ELSE None]
    /\ registry = EmptyStore
    /\ work = None
    /\ transfer_plan = TransferPlan(<< >>)
    /\ transfer_progress = new_progress
    /\ NoMonitor
    /\ held_locks = {}
    /\ in_flight = {}
    /\ serialized = TRUE
    /\ call = [op |-> "new"]
    /\ ret = Ok

\* acquire_lock on store.file_record(&file_id); an Acquired record is the
\* device's from now on and is still to be handed to set_lock
DevicesAcquire ==
    \E file_id \in FileIds, device_id \in DeviceIds, now \in Times :
        LET acquisition == acquire_lock(files[file_id][1], device_id, now)
        IN  /\ \A e \in in_flight : e.device_id # device_id
            /\ files[file_id] # None
            /\ call' = [op |-> "acquire_lock", file_id |-> file_id,
                        device_id |-> device_id]
            /\ ret' = acquisition
            /\ held_locks' = IF acquisition.kind = "Acquired"
                             THEN held_locks \cup {acquisition.lock}
                             ELSE held_locks
            /\ in_flight' = IF acquisition.kind = "Acquired"
                            THEN in_flight \cup
                                    {[op |-> "acquire_lock", file_id |-> file_id,
                                      device_id |-> device_id,
                                      lock |-> acquisition.lock]}
                            ELSE in_flight
            /\ serialized' = (serialized /\ \A e \in in_flight : e.file_id # file_id)
            /\ UNCHANGED <<files, registry, work, transfer_plan, transfer_progress,
                           monitor_vars>>

\* the second half of an acquiring step: store.set_lock(file_id, Some(lock))
\* with the Acquired record
DevicesStoreAcquired ==
    \E e \in in_flight :
        /\ e.op = "acquire_lock"
        /\ call' = [op |-> "set_lock", file_id |-> e.file_id]
        /\ IF files[e.file_id] = None
           THEN /\ ret' = Err("NotFound", e.file_id)
                /\ UNCHANGED files
           ELSE LET record2 == [files[e.file_id][1] EXCEPT !.lock = Some(e.lock)]
                IN  /\ files' = [files EXCEPT ![e.file_id] = Some(record2)]
                    /\ ret' = assert_file_invariants(record2)
        /\ in_flight' = in_flight \ {e}
        /\ UNCHANGED <<registry, work, transfer_plan, transfer_progress,
                       monitor_vars, held_locks, serialized>>

\* release_lock on the device's copy of store.file_record(&file_id); the
\* device gives up what it held for the file, and the copy is still to be
\* written back
DevicesRelease ==
    \E file_id \in FileIds, device_id \in DeviceIds :
        LET released == release_lock(files[file_id][1], device_id)
        IN  /\ \A e \in in_flight : e.device_id # device_id
            /\ files[file_id] # None
            /\ call' = [op |-> "release_lock", file_id |-> file_id,
                        device_id |-> device_id]
            /\ ret' = released.ret
            /\ held_locks' = IF released.ret = Ok
                             THEN {l \in held_locks : ~ (/\ l.file_id = file_id
                                                         /\ l.owner_device_id = device_id)}
                             ELSE held_locks
            /\ in_flight' = IF released.ret = Ok
                            THEN in_flight \cup
                                    {[op |-> "release_lock", file_id |-> file_id,
                                      device_id |-> device_id, file |-> released.file]}
                            ELSE in_flight
            /\ serialized' = (serialized /\ \A e \in in_flight : e.file_id # file_id)
            /\ UNCHANGED <<files, registry, work, transfer_plan, transfer_progress,
                           monitor_vars>>

\* the second half of a releasing step: store.upsert_file_record(copy)
DevicesStoreReleased ==
    \E e \in in_flight :
        /\ e.op = "release_lock"
        /\ call' = [op |-> "upsert_file_record", file_id |-> e.file.file_id]
        /\ ret' = assert_file_invariants(e.file)
        /\ files' = IF assert_file_invariants(e.file) = Ok
                    THEN [files EXCEPT ![e.file.file_id] = Some(e.file)]
                    ELSE files
        /\ in_flight' = in_flight \ {e}
        /\ UNCHANGED <<registry, work, transfer_plan, transfer_progress,
                       monitor_vars, held_locks, serialized>>

NextDevices ==
    \/ DevicesAcquire
    \/ DevicesStoreAcquired
    \/ DevicesRelease
    \/ DevicesStoreReleased

SpecDevices == InitDevices /\ [][NextDevices]_vars

\* the lock records held for a file
HeldFor(file_id) == {l \in held_locks : l.file_id = file_id}

\* a step on the file has called lock.rs and has not yet written to the store
Pending(file_id) == \E e \in in_flight : e.file_id = file_id

\* C37: as long as the steps on each file are kept apart, at most one lock
\* record is held for a file and, between the steps on the file, the lock
\* stored in its record is that record, owned by that device, none being
\* stored when none is held; a stored lock is never replaced by another
\* lock, it only goes away, and only through the write-back of its owner's
\* release.
C37_OneHolderPerFile ==
    /\ [](serialized =>
            \A file_id \in FileIds :
                /\ Cardinality(HeldFor(file_id)) <= 1
                /\ (files[file_id] # None /\ ~ Pending(file_id)) =>
                    /\ HeldFor(file_id) = {} => files[file_id][1].lock = None
                    /\ \A l \in HeldFor(file_id) :
                        /\ files[file_id][1].lock = Some(l)
                        /\ check_conflict(files[file_id][1], l.owner_device_id,
                                          files[file_id][1].head_version_id).kind
                                = "Allowed")
    /\ [][serialized' =>
            \A file_id \in FileIds :
                (/\ files[file_id] # None
                 /\ files[file_id][1].lock # None
                 /\ files'[file_id] # files[file_id]) =>
                    /\ files'[file_id] = Some([files[file_id][1] EXCEPT !.lock = None])
                    /\ \E e \in in_flight \ in_flight' :
                        /\ e.op = "release_lock"
                        /\ e.file_id = file_id
                        /\ e.device_id = files[file_id][1].lock[1].owner_device_id]_vars

\* with the steps kept apart so far, a device has just been denied a file
\* that the other device holds, while it holds the lock of the other file
\* itself
C37_Witness ==
    /\ serialized
    /\ in_flight = {}
    /\ call.op = "acquire_lock"
    /\ ret.kind = "Denied"
    /\ ret.holder_device # call.device_id
    /\ \E l \in HeldFor(call.file_id) : l.owner_device_id = ret.holder_device
    /\ \E l \in held_locks :
            l.file_id # call.file_id /\ l.owner_device_id = call.device_id

====
